---- MODULE Spec2Model ----
(***************************************************************************)
(* rank-lab: the engagement-logging handler with its online-learning       *)
(* feedback loop (api/recommendations.py, services/online_learning.py),    *)
(* the embedding arithmetic, the pre-scoring filters                       *)
(* (services/filters.py), the scorers (services/scoring.py) and the        *)
(* recommendation request (services/pipeline.py).                          *)
(*                                                                         *)
(* Numbers are exact rationals <<n, d>> with d > 0, in lowest terms.  An   *)
(* embedding vector is modelled by its coordinate along one fixed unit     *)
(* axis: all vectors of a run are multiples of the same unit vector e1, a  *)
(* family closed under the updates and under normalisation.  Its unit      *)
(* vectors are e1 and -e1, its zero vector is 0.                           *)
(***************************************************************************)
EXTENDS Integers, Sequences, FiniteSets, TLC

\* ------------------------------------------------------------------ bounds
NumRequests == 2
MaxFaults == 1
MaxCount == 200000000
MaxCands == 3
MaxTicks == 1
MaxPosts == 3
MaxBatch == 2

\* ------------------------------------------------------- rational numbers
Abs(x) == IF x < 0 THEN -x ELSE x

RECURSIVE Gcd(_, _)
Gcd(a, b) == IF b = 0 THEN a ELSE Gcd(b, a % b)

Rat(n, d) ==
    LET g == Gcd(Abs(n), Abs(d))
        s == IF d < 0 THEN -1 ELSE 1
    IN  IF n = 0 THEN <<0, 1>> ELSE <<s * (n \div g), s * (d \div g)>>

Zero == <<0, 1>>
One == <<1, 1>>

RNeg(a) == <<-a[1], a[2]>>

\* a + b over the least common denominator, so that no intermediate
\* product leaves the range of the machine integers
RAdd(a, b) ==
    LET g == Gcd(a[2], b[2])
        l == (a[2] \div g) * b[2]
    IN  Rat(a[1] * (l \div a[2]) + b[1] * (l \div b[2]), l)

RSub(a, b) == RAdd(a, RNeg(b))

\* a * b, cancelling across before multiplying
RMul(a, b) ==
    LET g1 == Gcd(Abs(a[1]), b[2])
        g2 == Gcd(Abs(b[1]), a[2])
    IN  IF a[1] = 0 \/ b[1] = 0 THEN Zero
        ELSE Rat((a[1] \div g1) * (b[1] \div g2), (a[2] \div g2) * (b[2] \div g1))

RAbs(a) == <<Abs(a[1]), a[2]>>

\* a < 1/e for a >= 0: n/d < 1/e  iff  n*e < d  iff  n <= (d-1) div e
RBelowInv(a, e) == a[1] <= (a[2] - 1) \div e

\* a < b, compared over the least common denominator
RLess(a, b) ==
    LET g == Gcd(a[2], b[2])
    IN  a[1] * (b[2] \div g) < b[1] * (a[2] \div g)

RMin(a, b) == IF RLess(b, a) THEN b ELSE a

\* ------------------------------------------------- online_learning.py data
\* SIGNAL_MAP: action type -> signed magnitude
SignalTypes == {"like", "reply", "repost", "not_interested", "block_author",
                "mute_author", "view"}

SIGNAL_MAP ==
    [t \in SignalTypes |->
        CASE t = "like" -> <<1, 1>>
          [] t = "reply" -> <<3, 2>>
          [] t = "repost" -> <<1, 1>>
          [] t = "not_interested" -> <<-1, 1>>
          [] t = "block_author" -> <<-2, 1>>
          [] t = "mute_author" -> <<-3, 2>>
          [] t = "view" -> <<0, 1>>]

\* 1 / POST_LEARNING_RATE, 1 / USER_BASE_ALPHA, 1 / (the norm threshold 1e-8)
POST_LEARNING_RATE_INV == 100
USER_BASE_ALPHA_INV == 10
NORM_EPS_INV == 100000000

POST_LEARNING_RATE == <<1, POST_LEARNING_RATE_INV>>
USER_BASE_ALPHA == <<1, USER_BASE_ALPHA_INV>>

\* signal = SIGNAL_MAP.get(event_type, 0.0)
SignalDefaultMutant == One
SignalDefault == Zero
Signal(event_type) ==
    IF event_type \in DOMAIN SIGNAL_MAP THEN SIGNAL_MAP[event_type]
    ELSE SignalDefault

\* np.linalg.norm of a multiple of e1
Norm(vec) == RAbs(vec)

\* _normalize: vec unchanged when its norm is below 1e-8, else vec / norm
NormalizeSkips(vec) == RBelowInv(Norm(vec), NORM_EPS_INV)
Normalize(vec) ==
    IF NormalizeSkips(vec) THEN vec
    ELSE IF vec[1] < 0 THEN RNeg(One) ELSE One

\* alpha = min(USER_BASE_ALPHA, 1.0 / (count + 1))
Alpha(count) == RMin(USER_BASE_ALPHA, <<1, count + 1>>)

\* new_emb = (1.0 - alpha) * current + alpha * signal * post_emb
UserBlend(current, count, post_emb, signal) ==
    RAdd(RMul(RSub(One, Alpha(count)), current),
         RMul(RMul(Alpha(count), signal), post_emb))

UserUpdate(current, count, post_emb, signal) ==
    Normalize(UserBlend(current, count, post_emb, signal))

\* new_emb = current + POST_LEARNING_RATE * signal * user_emb
PostNudge(current, user_emb, signal) ==
    RAdd(current, RMul(RMul(POST_LEARNING_RATE, signal), user_emb))

PostUpdate(current, user_emb, signal) ==
    Normalize(PostNudge(current, user_emb, signal))

IsZeroVec(v) == v[1] = 0
IsUnitVec(v) == Norm(v) = One

\* ---------------------------------------------------- requests and store
Requests == 1 .. NumRequests
\* the request slots of the store-race specification: one more
Slots == 1 .. (NumRequests + 1)
Users == {"u1"}
Posts == {"p1"}
EventTypes == {"like", "reply", "not_interested", "view", "bookmark"}

\* request.headers.get("authorization"): absent, or a value that carries the
\* "bearer " prefix or not; token is what is left after split and strip
BearerToken == [present |-> TRUE, bearer |-> TRUE, token |-> "tok"]
HeaderSamples ==
    { [present |-> FALSE, bearer |-> FALSE, token |-> ""],
      [present |-> TRUE, bearer |-> TRUE, token |-> ""],
      [present |-> TRUE, bearer |-> FALSE, token |-> "tok"],
      BearerToken }

\* the requests of a run: every event body under a bearer token, and one
\* event body under each of the other headers (the handler reads the body
\* only after the header checks, and treats both token forms alike)
RequestSamples ==
    { [hdr |-> h, user_id |-> u, post_id |-> p, event_type |-> t] :
        h \in HeaderSamples, u \in Users, p \in Posts, t \in EventTypes }
EventOf(rq) == [user_id |-> rq.user_id, post_id |-> rq.post_id,
                event_type |-> rq.event_type]
RequestInputs ==
    { rq \in RequestSamples : rq.hdr = BearerToken \/ rq.event_type = "like" }

\* Python's None, and a PostgREST response.data list
None == <<>>
NoData == <<>>

NoRequest == [hdr |-> [present |-> FALSE, bearer |-> FALSE, token |-> ""],
              user_id |-> "", post_id |-> "", event_type |-> ""]

NoLocals == [event_id |-> None, user_emb |-> None, post_emb |-> None,
             current |-> Zero, count |-> 0]
\* on return only the event id is still of interest
Finished(l) == [NoLocals EXCEPT !.event_id = l.event_id]

NoResponse == [http |-> 0, status |-> "", message |-> "", event_id |-> None]

NoHistory == [insert |-> "none", inserts |-> 0, learnCalls |-> 0, reads |-> 0,
              wrote |-> {}, count |-> 0, missing |-> FALSE, learnFailed |-> FALSE]

VARIABLES
    events,      \* table engagement_events: set of rows
    nextId,      \* the next generated event id
    userRows,    \* table user_embeddings: user_id -> list of 0 or 1 rows
    postRows,    \* table post_embeddings: post_id -> list of 0 or 1 rows
    pc,          \* request -> the store call its handler is about to make
    req,         \* request -> the Authorization header and the event body
    loc,         \* request -> the handler's local variables
    resp,        \* request -> the HTTP response
    hist,        \* request -> what the handler has done so far
    faults,      \* store and service failures so far
    upd,         \* one embedding update: its arguments and the vector it stores
    given,       \* the candidate list handed to the first filter
    first,       \* the first filter application: list of 0 or 1 stages
    second,      \* the filter application on the first one's output
    clock,       \* datetime.now(timezone.utc), in seconds
    social,      \* the requesting user with the blocked and muted author ids
    chain,       \* the filters applied one after another: list of stages
    scoring,     \* one run of ScorerPipeline.score: its inputs and its stages
    store,       \* the store's rows as one recommendation request reads them
    rec,         \* one run of generate_recommendations: position and locals
    backfill     \* the posts and embedding rows backfill works on, and its result

engageVars == <<events, nextId, userRows, postRows, pc, req, loc, resp, hist, faults>>
updateVars == <<upd>>
filterVars == <<given, first, second, clock, social>>
restVars == <<chain, scoring, store, rec, backfill>>

\* nothing applied: the state of the update and of the filters in a run of
\* the handler, and of the handler in a run of the others
NoUpdate == [op |-> "none", current |-> Zero, count |-> 0, other |-> Zero,
             event_type |-> "view", result |-> Zero]
NoSocial == [user_id |-> "u1", blocked |-> {}, muted |-> {}]
UpdateIdle == upd = NoUpdate
FilterIdle ==
    /\ given = <<>>
    /\ first = <<>>
    /\ second = <<>>
    /\ clock = 0
    /\ social = NoSocial
RestIdle ==
    chain = <<>> /\ scoring = <<>> /\ store = <<>> /\ rec = <<>> /\ backfill = <<>>
\* no engagement request is in flight and the engagement tables are empty
EngageIdle ==
    /\ events = {}
    /\ nextId = 1
    /\ userRows = [u \in Users |-> NoData]
    /\ postRows = [p \in Posts |-> NoData]
    /\ pc = [r \in Slots |-> "idle"]
    /\ req = [r \in Slots |-> NoRequest]
    /\ loc = [r \in Slots |-> NoLocals]
    /\ resp = [r \in Slots |-> NoResponse]
    /\ hist = [r \in Slots |-> NoHistory]
    /\ faults = 0

\* the stored user rows and post rows a run may start from
UserRowSamples ==
    { NoData,
      <<[embedding_128 |-> Zero, engagement_count |-> 0]>>,
      <<[embedding_128 |-> RNeg(One), engagement_count |-> 9]>> }

PostRowSamples ==
    { NoData,
      <<[embedding_128 |-> One, is_pretrained |-> TRUE]>> }

EngageInit ==
    /\ events = {}
    /\ nextId = 1
    /\ userRows \in [Users -> UserRowSamples]
    /\ postRows \in [Posts -> PostRowSamples]
    /\ pc = [r \in Slots |-> "idle"]
    /\ req = [r \in Slots |-> NoRequest]
    /\ loc = [r \in Slots |-> NoLocals]
    /\ resp = [r \in Slots |-> NoResponse]
    /\ hist = [r \in Slots |-> NoHistory]
    /\ faults = 0
    /\ UpdateIdle
    /\ FilterIdle
    /\ RestIdle

\* ------------------------------------------- log_engagement (POST /engage)
Locals(r, field, value) == [loc EXCEPT ![r] = [loc[r] EXCEPT ![field] = value]]

\* the handler returns or raises: status code and body
Respond(r, response) ==
    /\ pc' = [pc EXCEPT ![r] = "done"]
    /\ resp' = [resp EXCEPT ![r] = response]

\* raise HTTPException(status_code=500, detail=str(e)) of the outer except
ServerError == [http |-> 500, status |-> "error", message |-> "", event_id |-> None]

\* the outer `except Exception as e` catches every exception raised in the
\* handler's body, the HTTPException(401) of the header checks among them
\* (HTTPException is a subclass of Exception), and raises 500 in its place
OuterExcept(status_code) == ServerError

\* the header checks: `if not auth_header` and `if not token`
TokenOf(hdr) == hdr.token
AuthRejected(hdr) == ~hdr.present \/ TokenOf(hdr) = ""

\* the body returned on a duplicate
AlreadyLogged ==
    [http |-> 200, status |-> "success", message |-> "already_logged", event_id |-> None]

\* the body returned at the end: result.data[0]["id"] if result.data else None
Logged(data) ==
    [http |-> 200, status |-> "success", message |-> "",
     event_id |-> IF data # NoData THEN <<data[1].id>> ELSE None]

\* an exception raised by the insert: its code attribute ("" when it has
\* none) and str(insert_err), character by character
DuplicateKeyError ==
    [code |-> "23505", str |-> <<"2", "3", "5", "0", "5", ":", "d", "u", "p">>]

\* the other exceptions of the insert: a foreign-key violation whose details
\* quote a key without or with the digits 23505 in it, and an exception that
\* has no code attribute
InsertErrorSamples ==
    { [code |-> "23503", str |-> <<"2", "3", "5", "0", "3", ":", "a", "1", "f">>],
      [code |-> "23503", str |-> <<"2", "3", "5", "0", "3", ":", "a", "2", "3", "5", "0", "5">>],
      [code |-> "", str |-> <<"t", "i", "m", "e", "o", "u", "t">>] }

\* "23505" in err_str or (hasattr(insert_err, "code") and insert_err.code == "23505")
IsDuplicateKeyMutant(err) == err.code = "23503"
IsDuplicateKey(err) ==
    LET sub == <<"2", "3", "5", "0", "5">>
        err_str == err.str
    IN  \/ \E i \in 1 .. (Len(err_str) - Len(sub) + 1) :
              SubSeq(err_str, i, i + Len(sub) - 1) = sub
        \/ (err.code # "" /\ err.code = "23505")

\* the unique constraint of engagement_events on (user_id, post_id, event_type)
SameTriple(e, data) ==
    /\ e.user_id = data.user_id
    /\ e.post_id = data.post_id
    /\ e.event_type = data.event_type
IdempotentTypes == {"like", "bookmark"}
UniqueViolation(data) ==
    /\ data.event_type \in IdempotentTypes
    /\ \E e \in events : SameTriple(e, data)

\* the return after the learning block (lines 160-166)
ReturnLogged(r, id) ==
    Respond(r, Logged(<<[id |-> id]>>))

\* except Exception as learn_err: logged, the request goes on
OnLearnRaiseMutant(r, id) ==
    Respond(r, ServerError)
OnLearnRaise(r, id) ==
    ReturnLogged(r, id)

\* the event is inserted; get_online_learning_service() raises
LearnerRaises(r, id) ==
    /\ faults < MaxFaults
    /\ faults' = faults + 1
    /\ hist' = [hist EXCEPT ![r].insert = "ok", ![r].inserts = @ + 1,
                            ![r].learnFailed = TRUE]
    /\ loc' = Locals(r, "event_id", <<id>>)
    /\ OnLearnRaise(r, id)

\* process_engagement up to its first store call: the signal lookup and
\* `if signal == 0.0: return`
SkipsOnSignal(signal) == signal = Zero
ProcessEngagementBegin(r, id, event_type) ==
    /\ faults' = faults
    /\ hist' = [hist EXCEPT ![r].insert = "ok", ![r].inserts = @ + 1,
                            ![r].learnCalls = @ + 1]
    /\ loc' = Locals(r, "event_id", <<id>>)
    /\ IF SkipsOnSignal(Signal(event_type))
       THEN ReturnLogged(r, id)
       ELSE /\ pc' = [pc EXCEPT ![r] = "get_user"]
            /\ resp' = resp

\* the insert raised a duplicate-key error: return "already_logged"
OnInsertConflictMutant(r, data) ==
    /\ events' = events
    /\ nextId' = nextId
    /\ faults' = faults
    /\ hist' = [hist EXCEPT ![r].insert = "conflict", ![r].inserts = @ + 1,
                            ![r].learnCalls = @ + 1]
    /\ loc' = loc
    /\ IF SkipsOnSignal(Signal(data.event_type))
       THEN Respond(r, AlreadyLogged)
       ELSE /\ pc' = [pc EXCEPT ![r] = "get_user"]
            /\ resp' = resp
OnInsertConflict(r, data) ==
    /\ events' = events
    /\ nextId' = nextId
    /\ faults' = faults
    /\ hist' = [hist EXCEPT ![r].insert = "conflict", ![r].inserts = @ + 1]
    /\ loc' = loc
    /\ Respond(r, AlreadyLogged)

\* supabase.table("engagement_events").insert(data).execute() and what the
\* handler does with its outcome, up to the next store call
InsertEvent(r, data) ==
    \/ /\ UniqueViolation(data)
       /\ IF IsDuplicateKey(DuplicateKeyError)
          THEN OnInsertConflict(r, data)
          ELSE /\ UNCHANGED <<events, nextId, faults, loc>>
               /\ hist' = [hist EXCEPT ![r].insert = "conflict", ![r].inserts = @ + 1]
               /\ Respond(r, OuterExcept(500))
    \/ /\ ~UniqueViolation(data)
       /\ faults < MaxFaults
       /\ UNCHANGED <<events, nextId, loc>>
       /\ faults' = faults + 1
       /\ hist' = [hist EXCEPT ![r].insert = "error", ![r].inserts = @ + 1]
       /\ \E insert_err \in InsertErrorSamples :
             IF IsDuplicateKey(insert_err)
             THEN Respond(r, AlreadyLogged)
             ELSE Respond(r, OuterExcept(500))
    \/ /\ ~UniqueViolation(data)
       /\ events' = events \cup {[id |-> nextId] @@ data}
       /\ nextId' = nextId + 1
       /\ \/ LearnerRaises(r, nextId)
          \/ ProcessEngagementBegin(r, nextId, data.event_type)

\* the handler from the request's arrival to its first store call
LogEngagement(r, rq) ==
    /\ pc[r] = "idle"
    /\ \A q \in Slots : q < r => pc[q] # "idle"
    /\ req' = [req EXCEPT ![r] = rq]
    /\ UNCHANGED <<userRows, postRows>>
    /\ IF AuthRejected(rq.hdr)
       THEN /\ Respond(r, OuterExcept(401))
            /\ UNCHANGED <<events, nextId, loc, hist, faults>>
       ELSE InsertEvent(r, EventOf(rq))

\* --------------------------------- OnlineLearningService.process_engagement
\* the response the handler returns once process_engagement has returned
EventId(r) == loc[r].event_id
Returned(r) ==
    IF EventId(r) = None THEN AlreadyLogged ELSE Logged(<<[id |-> EventId(r)[1]]>>)

\* a store call of request r that raises; every one inside process_engagement
\* is caught where it is made
Fault(r) ==
    /\ faults < MaxFaults
    /\ faults' = faults + 1

\* _get_user_embedding / _get_post_embedding: the vector of the row, or None
\* when there is no row or the read raised
EmbeddingOf(data) == IF data # NoData THEN <<data[1].embedding_128>> ELSE None

GetUserEmbedding(r) ==
    /\ pc[r] = "get_user"
    /\ \/ /\ faults' = faults
          /\ loc' = Locals(r, "user_emb", EmbeddingOf(userRows[req[r].user_id]))
          /\ hist' = [hist EXCEPT ![r].reads = @ + 1]
       \/ /\ Fault(r)
          /\ loc' = Locals(r, "user_emb", None)
          /\ hist' = [hist EXCEPT ![r].reads = @ + 1, ![r].learnFailed = TRUE]
    /\ pc' = [pc EXCEPT ![r] = "get_post"]
    /\ UNCHANGED <<events, nextId, userRows, postRows, req, resp>>

\* `if user_emb is None or post_emb is None: return`
SkipsOnMissingMutant(user_emb, post_emb) == post_emb = None
SkipsOnMissing(user_emb, post_emb) == user_emb = None \/ post_emb = None

\* process_engagement returns to the handler, which returns its response
Return(r) ==
    /\ loc' = [loc EXCEPT ![r] = Finished(loc[r])]
    /\ Respond(r, Returned(r))

GetPostEmbeddingThen(r, post_emb, failed) ==
    /\ hist' = [hist EXCEPT ![r].reads = @ + 1,
                            ![r].missing = loc[r].user_emb = None \/ post_emb = None,
                            ![r].learnFailed = @ \/ failed]
    /\ IF SkipsOnMissing(loc[r].user_emb, post_emb)
       THEN Return(r)
       ELSE /\ loc' = Locals(r, "post_emb", post_emb)
            /\ pc' = [pc EXCEPT ![r] = "upd_user_read"]
            /\ resp' = resp

GetPostEmbedding(r) ==
    /\ pc[r] = "get_post"
    /\ \/ /\ faults' = faults
          /\ GetPostEmbeddingThen(r, EmbeddingOf(postRows[req[r].post_id]), FALSE)
       \/ /\ Fault(r)
          /\ GetPostEmbeddingThen(r, None, TRUE)
    /\ UNCHANGED <<events, nextId, userRows, postRows, req>>

\* _update_user_embedding, the select: current and count from the row, or the
\* zero vector and 0 when there is no row
UpdateUserRead(r) ==
    /\ pc[r] = "upd_user_read"
    /\ \/ /\ faults' = faults
          /\ LET data == userRows[req[r].user_id]
             IN  loc' = [loc EXCEPT ![r].current =
                                IF data # NoData THEN data[1].embedding_128 ELSE Zero,
                             ![r].count =
                                IF data # NoData THEN data[1].engagement_count ELSE 0]
          /\ hist' = [hist EXCEPT ![r].reads = @ + 1]
          /\ pc' = [pc EXCEPT ![r] = "upd_user_write"]
       \/ /\ Fault(r)
          /\ loc' = loc
          /\ hist' = [hist EXCEPT ![r].reads = @ + 1, ![r].learnFailed = TRUE]
          /\ pc' = [pc EXCEPT ![r] = "upd_post_read"]
    /\ UNCHANGED <<events, nextId, userRows, postRows, req, resp>>

\* the row _update_user_embedding upserts
NewCountMutant(count) == count + 2
NewCount(count) == count + 1
UserRowUpsert(current, count, post_emb, signal) ==
    [embedding_128 |-> UserUpdate(current, count, post_emb, signal),
     engagement_count |-> NewCount(count)]

\* arithmetic on None raises TypeError inside the try of the update
UpdateUserWrite(r) ==
    /\ pc[r] = "upd_user_write"
    /\ \/ /\ faults' = faults
          /\ IF loc[r].post_emb = None
             THEN /\ userRows' = userRows
                  /\ hist' = [hist EXCEPT ![r].learnFailed = TRUE]
             ELSE /\ userRows' = [userRows EXCEPT ![req[r].user_id] =
                        <<UserRowUpsert(loc[r].current, loc[r].count,
                                        loc[r].post_emb[1], Signal(req[r].event_type))>>]
                  /\ hist' = [hist EXCEPT ![r].wrote = @ \cup {"user"},
                                          ![r].count = NewCount(loc[r].count)]
       \/ /\ Fault(r)
          /\ userRows' = userRows
          /\ hist' = [hist EXCEPT ![r].learnFailed = TRUE]
    /\ pc' = [pc EXCEPT ![r] = "upd_post_read"]
    /\ UNCHANGED <<events, nextId, postRows, req, loc, resp>>

\* _update_post_embedding, the select: `if not response.data: return`
UpdatePostRead(r) ==
    /\ pc[r] = "upd_post_read"
    /\ \/ /\ faults' = faults
          /\ hist' = [hist EXCEPT ![r].reads = @ + 1]
          /\ LET data == postRows[req[r].post_id]
             IN  IF data = NoData
                 THEN Return(r)
                 ELSE /\ loc' = Locals(r, "current", data[1].embedding_128)
                      /\ pc' = [pc EXCEPT ![r] = "upd_post_write"]
                      /\ resp' = resp
       \/ /\ Fault(r)
          /\ hist' = [hist EXCEPT ![r].reads = @ + 1, ![r].learnFailed = TRUE]
          /\ Return(r)
    /\ UNCHANGED <<events, nextId, userRows, postRows, req>>

\* the columns _update_post_embedding sets where post_id matches
PostRowUpdate(row, current, user_emb, signal) ==
    [row EXCEPT !.embedding_128 = PostUpdate(current, user_emb, signal),
                !.is_pretrained = FALSE]

UpdatePostWrite(r) ==
    /\ pc[r] = "upd_post_write"
    /\ \/ /\ faults' = faults
          /\ LET data == postRows[req[r].post_id]
             IN  IF loc[r].user_emb = None
                 THEN /\ postRows' = postRows
                      /\ hist' = [hist EXCEPT ![r].learnFailed = TRUE]
                 ELSE /\ postRows' = [postRows EXCEPT ![req[r].post_id] =
                            IF data = NoData THEN NoData
                            ELSE <<PostRowUpdate(data[1], loc[r].current,
                                                 loc[r].user_emb[1],
                                                 Signal(req[r].event_type))>>]
                      /\ hist' = [hist EXCEPT ![r].wrote = @ \cup {"post"}]
       \/ /\ Fault(r)
          /\ postRows' = postRows
          /\ hist' = [hist EXCEPT ![r].learnFailed = TRUE]
    /\ Return(r)
    /\ UNCHANGED <<events, nextId, userRows, req>>

pureVars == <<updateVars, filterVars, restVars>>

EngageNext ==
    \/ \E r \in Requests, rq \in RequestInputs : LogEngagement(r, rq) /\ UNCHANGED pureVars
    \/ \E r \in Slots : GetUserEmbedding(r) /\ UNCHANGED pureVars
    \/ \E r \in Slots : GetPostEmbedding(r) /\ UNCHANGED pureVars
    \/ \E r \in Slots : UpdateUserRead(r) /\ UNCHANGED pureVars
    \/ \E r \in Slots : UpdateUserWrite(r) /\ UNCHANGED pureVars
    \/ \E r \in Slots : UpdatePostRead(r) /\ UNCHANGED pureVars
    \/ \E r \in Slots : UpdatePostWrite(r) /\ UNCHANGED pureVars

vars == <<engageVars, updateVars, filterVars, restVars>>

Init == EngageInit
Next == EngageNext
Spec == Init /\ [][Next]_vars

\* ------------------------------------------------------- the store race
\* Overlapping updates of one user's row: every slot carries an accepted
\* request with a non-zero signal, both rows exist, and no call fails.
RaceInputs ==
    { rq \in RequestSamples : rq.hdr = BearerToken /\ Signal(rq.event_type) # Zero }

RaceInit ==
    /\ events = {}
    /\ nextId = 1
    /\ userRows = [u \in Users |-> <<[embedding_128 |-> Zero, engagement_count |-> 0]>>]
    /\ postRows = [p \in Posts |-> <<[embedding_128 |-> One, is_pretrained |-> TRUE]>>]
    /\ pc = [r \in Slots |-> "idle"]
    /\ req = [r \in Slots |-> NoRequest]
    /\ loc = [r \in Slots |-> NoLocals]
    /\ resp = [r \in Slots |-> NoResponse]
    /\ hist = [r \in Slots |-> NoHistory]
    /\ faults = MaxFaults
    /\ UpdateIdle
    /\ FilterIdle
    /\ RestIdle

RaceNext ==
    \/ \E r \in Slots, rq \in RaceInputs : LogEngagement(r, rq) /\ UNCHANGED pureVars
    \/ \E r \in Slots : GetUserEmbedding(r) /\ UNCHANGED pureVars
    \/ \E r \in Slots : GetPostEmbedding(r) /\ UNCHANGED pureVars
    \/ \E r \in Slots : UpdateUserRead(r) /\ UNCHANGED pureVars
    \/ \E r \in Slots : UpdateUserWrite(r) /\ UNCHANGED pureVars
    \/ \E r \in Slots : UpdatePostRead(r) /\ UNCHANGED pureVars
    \/ \E r \in Slots : UpdatePostWrite(r) /\ UNCHANGED pureVars

SpecRace == RaceInit /\ [][RaceNext]_vars

\* ------------------------------------------- the embedding updates, alone
\* One application of _update_user_embedding's or _update_post_embedding's
\* arithmetic to stored vectors that are zero or of unit norm.
StoredVectors == {RNeg(One), Zero, One}

\* engagement counters: around the step of alpha from the base rate to
\* 1/(count+1), and around the counters whose blend of a zero vector falls
\* below the norm threshold
CountSamples ==
    {0, 1, USER_BASE_ALPHA_INV - 1, USER_BASE_ALPHA_INV,
     NORM_EPS_INV - 1, NORM_EPS_INV, MaxCount}

UpdateInit ==
    /\ upd \in { [NoUpdate EXCEPT !.current = c, !.count = n, !.other = o,
                                  !.event_type = t] :
                   c \in StoredVectors, n \in CountSamples, o \in StoredVectors,
                   t \in {s \in SignalTypes : ~SkipsOnSignal(Signal(s))} }
    /\ events = {}
    /\ nextId = 1
    /\ userRows = [u \in Users |-> NoData]
    /\ postRows = [p \in Posts |-> NoData]
    /\ pc = [r \in Slots |-> "idle"]
    /\ req = [r \in Slots |-> NoRequest]
    /\ loc = [r \in Slots |-> NoLocals]
    /\ resp = [r \in Slots |-> NoResponse]
    /\ hist = [r \in Slots |-> NoHistory]
    /\ faults = 0
    /\ FilterIdle
    /\ RestIdle

\* lines 105-107: the vector the user upsert stores
ApplyUserUpdate ==
    /\ upd.op = "none"
    /\ upd' = [upd EXCEPT !.op = "user",
                          !.result = UserUpdate(upd.current, upd.count, upd.other,
                                                Signal(upd.event_type))]
    /\ UNCHANGED <<engageVars, filterVars, restVars>>

\* lines 142-144: the vector the post update stores
ApplyPostUpdate ==
    /\ upd.op = "none"
    /\ upd' = [upd EXCEPT !.op = "post",
                          !.result = PostUpdate(upd.current, upd.other,
                                                Signal(upd.event_type))]
    /\ UNCHANGED <<engageVars, filterVars, restVars>>

UpdateNext ==
    \/ ApplyUserUpdate
    \/ ApplyPostUpdate

SpecUpdate == UpdateInit /\ [][UpdateNext]_vars

\* ------------------------------------------------- services/filters.py
DaySeconds == 24 * 60 * 60
MAX_POST_AGE_DAYS == 7
Window == MAX_POST_AGE_DAYS * DaySeconds

\* FilterResult(candidates, removed_count)
FilterResult(candidates, removed_count) ==
    [candidates |-> candidates, removed_count |-> removed_count]

\* DropDuplicatesFilter.filter: the loop over candidates
KeepUniqueMutant(unique, candidate) == <<candidate>> \o unique
KeepUnique(unique, candidate) == Append(unique, candidate)

\* what seen_ids holds of a candidate: candidate.id
SeenKeyMutant(candidate) == candidate.author_id
SeenKey(candidate) == candidate.id

RECURSIVE DropDuplicatesLoop(_, _, _, _)
DropDuplicatesLoop(rest, seen_ids, unique, removed) ==
    IF rest = <<>> THEN FilterResult(unique, removed)
    ELSE LET candidate == Head(rest)
         IN  IF SeenKey(candidate) \in seen_ids
             THEN DropDuplicatesLoop(Tail(rest), seen_ids, unique, removed + 1)
             ELSE DropDuplicatesLoop(Tail(rest), seen_ids \cup {SeenKey(candidate)},
                                     KeepUnique(unique, candidate), removed)

\* a loop that stops at the first duplicate it drops
DropDuplicatesFilterMutant(candidates) ==
    LET dup == {i \in 1 .. Len(candidates) :
                    \E j \in 1 .. (i - 1) : candidates[j].id = candidates[i].id}
    IN  IF dup = {} THEN FilterResult(candidates, 0)
        ELSE LET k == CHOOSE i \in dup : \A j \in dup : i <= j
             IN  FilterResult(SubSeq(candidates, 1, k - 1)
                                \o SubSeq(candidates, k + 1, Len(candidates)), 1)
DropDuplicatesFilter(candidates) ==
    DropDuplicatesLoop(candidates, {}, <<>>, 0)

\* CoreDataHydrationFilter.filter: text, author_id and created_at all truthy;
\* a UUID and a datetime always are, a str is unless empty
Hydrated(candidate) ==
    /\ candidate.text # ""
    /\ candidate.author_id # ""
    /\ candidate.created_at \in Int

RECURSIVE CoreDataHydrationLoop(_, _, _)
CoreDataHydrationLoop(rest, valid, removed) ==
    IF rest = <<>> THEN FilterResult(valid, removed)
    ELSE IF Hydrated(Head(rest))
         THEN CoreDataHydrationLoop(Tail(rest), Append(valid, Head(rest)), removed)
         ELSE CoreDataHydrationLoop(Tail(rest), valid, removed + 1)

CoreDataHydrationFilter(candidates) == CoreDataHydrationLoop(candidates, <<>>, 0)

\* AgeFilter.filter: cutoff = now - timedelta(days=max_age_days); a created_at
\* without tzinfo gets tzinfo=UTC, its clock reading unchanged
Cutoff(now) == now - Window
AsUtc(candidate) == candidate.created_at
Recent(candidate, cutoff) == AsUtc(candidate) > cutoff

RECURSIVE AgeLoop(_, _, _, _)
AgeLoop(rest, cutoff, valid, removed) ==
    IF rest = <<>> THEN FilterResult(valid, removed)
    ELSE IF Recent(Head(rest), cutoff)
         THEN AgeLoop(Tail(rest), cutoff, Append(valid, Head(rest)), removed)
         ELSE AgeLoop(Tail(rest), cutoff, valid, removed + 1)

AgeFilter(candidates, now) == AgeLoop(candidates, Cutoff(now), <<>>, 0)

\* SelfTweetFilter.filter
RECURSIVE SelfTweetLoop(_, _, _, _)
SelfTweetLoop(rest, user_id, valid, removed) ==
    IF rest = <<>> THEN FilterResult(valid, removed)
    ELSE IF Head(rest).author_id # user_id
         THEN SelfTweetLoop(Tail(rest), user_id, Append(valid, Head(rest)), removed)
         ELSE SelfTweetLoop(Tail(rest), user_id, valid, removed + 1)

SelfTweetFilter(candidates, user_id) == SelfTweetLoop(candidates, user_id, <<>>, 0)

\* AuthorSocialgraphFilter.filter
RECURSIVE AuthorSocialgraphLoop(_, _, _, _, _)
AuthorSocialgraphLoop(rest, blocked, muted, valid, removed) ==
    IF rest = <<>> THEN FilterResult(valid, removed)
    ELSE IF Head(rest).author_id \notin blocked /\ Head(rest).author_id \notin muted
         THEN AuthorSocialgraphLoop(Tail(rest), blocked, muted,
                                    Append(valid, Head(rest)), removed)
         ELSE AuthorSocialgraphLoop(Tail(rest), blocked, muted, valid, removed + 1)

AuthorSocialgraphFilterMutant(candidates, blocked, muted) ==
    AuthorSocialgraphLoop(candidates, blocked, {}, <<>>, 0)

AuthorSocialgraphFilter(candidates, blocked, muted) ==
    AuthorSocialgraphLoop(candidates, blocked, muted, <<>>, 0)

\* the filters of FilterPipeline, by their filter_names
FilterNames ==
    {"DropDuplicates", "CoreDataHydration", "Age", "SelfTweet", "AuthorSocialgraph"}

RunFilter(name, candidates, now, soc) ==
    CASE name = "DropDuplicates" -> DropDuplicatesFilter(candidates)
      [] name = "CoreDataHydration" -> CoreDataHydrationFilter(candidates)
      [] name = "Age" -> AgeFilter(candidates, now)
      [] name = "SelfTweet" -> SelfTweetFilter(candidates, soc.user_id)
      [] name = "AuthorSocialgraph" ->
            AuthorSocialgraphFilter(candidates, soc.blocked, soc.muted)

\* PostCandidate: the fields the filters read.  created_at is the instant in
\* seconds, naive tells that the datetime carries no tzinfo.
Candidate(id, text, author_id, created_at, naive) ==
    [id |-> id, text |-> text, author_id |-> author_id,
     created_at |-> created_at, naive |-> naive]

\* candidates of two post ids: one every filter keeps at clock 0, and one for
\* each filter to remove; the last is as old as the window less one second
CandidateSamples ==
    { Candidate(id, "t", "a4", 0 - DaySeconds, FALSE) : id \in {"p1", "p2"} }
    \cup { Candidate("p1", "", "a4", 0 - DaySeconds, FALSE),
           Candidate("p1", "t", "u1", 0 - DaySeconds, TRUE),
           Candidate("p2", "t", "a2", 0 - DaySeconds, FALSE),
           Candidate("p2", "t", "a3", 0 - Window - 1, TRUE),
           Candidate("p1", "t", "a4", 1 - Window, FALSE) }

RECURSIVE ListsUpTo(_)
ListsUpTo(n) ==
    IF n = 0 THEN {<<>>}
    ELSE LET shorter == ListsUpTo(n - 1)
         IN  shorter \cup { Append(l, c) : l \in shorter, c \in CandidateSamples }

SocialSamples ==
    { NoSocial, [user_id |-> "u1", blocked |-> {"a2"}, muted |-> {"a3"}] }

FilterInit ==
    /\ given \in ListsUpTo(MaxCands)
    /\ first = <<>>
    /\ second = <<>>
    /\ clock = 0
    /\ social \in SocialSamples
    /\ events = {}
    /\ nextId = 1
    /\ userRows = [u \in Users |-> NoData]
    /\ postRows = [p \in Posts |-> NoData]
    /\ pc = [r \in Slots |-> "idle"]
    /\ req = [r \in Slots |-> NoRequest]
    /\ loc = [r \in Slots |-> NoLocals]
    /\ resp = [r \in Slots |-> NoResponse]
    /\ hist = [r \in Slots |-> NoHistory]
    /\ faults = 0
    /\ UpdateIdle
    /\ RestIdle

\* one filter application as FilterPipeline.apply makes it: the filter runs
\* on the current list and its output becomes the current list
Stage(name, now, input, result) ==
    [name |-> name, now |-> now, input |-> input,
     candidates |-> result.candidates, removed_count |-> result.removed_count]

Current == IF first = <<>> THEN given ELSE first[1].candidates

ApplyFilter(name) ==
    /\ second = <<>>
    /\ LET stage == Stage(name, clock, Current, RunFilter(name, Current, clock, social))
       IN  IF first = <<>>
           THEN first' = <<stage>> /\ second' = second
           ELSE second' = <<stage>> /\ first' = first
    /\ UNCHANGED <<given, clock, social, engageVars, updateVars, restVars>>

\* time passes between two filter applications
Tick ==
    /\ clock < MaxTicks
    /\ clock' = clock + 1
    /\ UNCHANGED <<given, first, second, social, engageVars, updateVars, restVars>>

FilterNext ==
    \/ ApplyFilter("DropDuplicates")
    \/ ApplyFilter("CoreDataHydration")
    \/ ApplyFilter("Age")
    \/ ApplyFilter("SelfTweet")
    \/ ApplyFilter("AuthorSocialgraph")
    \/ Tick

SpecFilter == FilterInit /\ [][FilterNext]_vars

\* ------------------------------------------------ FilterPipeline.apply
\* self.filter_names, in the order of self.filters
FilterOrder ==
    <<"DropDuplicates", "CoreDataHydration", "Age", "SelfTweet", "AuthorSocialgraph">>

\* the loop of FilterPipeline.apply from filter i on: the current list and
\* the stats gathered so far
RECURSIVE FilterPipelineLoop(_, _, _, _, _)
FilterPipelineLoop(i, current, stats, now, soc) ==
    IF i > Len(FilterOrder) THEN [candidates |-> current, stats |-> stats]
    ELSE LET result == RunFilter(FilterOrder[i], current, now, soc)
             removed == Len(current) - Len(result.candidates)
         IN  FilterPipelineLoop(i + 1, result.candidates,
                                Append(stats, <<FilterOrder[i], removed>>), now, soc)

FilterPipelineApply(candidates, now, soc) ==
    FilterPipelineLoop(1, candidates, <<>>, now, soc)

\* The five filters applied one after another in any order, each once, at one
\* request time.
ChainInit ==
    /\ given \in ListsUpTo(MaxCands)
    /\ social \in SocialSamples
    /\ clock = 0
    /\ first = <<>>
    /\ second = <<>>
    /\ chain = <<>>
    /\ scoring = <<>> /\ store = <<>> /\ rec = <<>> /\ backfill = <<>>
    /\ EngageIdle
    /\ UpdateIdle

ChainApply(name) ==
    LET current == IF chain = <<>> THEN given ELSE chain[Len(chain)].candidates
    IN  /\ name \notin {chain[i].name : i \in DOMAIN chain}
        /\ chain' = Append(chain, Stage(name, clock, current,
                                        RunFilter(name, current, clock, social)))
        /\ UNCHANGED <<filterVars, engageVars, updateVars, scoring, store, rec, backfill>>

ChainNext ==
    \/ ChainApply("DropDuplicates")
    \/ ChainApply("CoreDataHydration")
    \/ ChainApply("Age")
    \/ ChainApply("SelfTweet")
    \/ ChainApply("AuthorSocialgraph")

SpecChain == ChainInit /\ [][ChainNext]_vars

\* ----------------------------------------------------------- scoring.py
\* settings.ACTION_PREDICTIONS and settings.DEFAULT_WEIGHTS
ACTION_PREDICTIONS ==
    <<"like", "reply", "repost", "not_interested", "block_author", "mute_author">>

DEFAULT_WEIGHTS ==
    [a \in {ACTION_PREDICTIONS[i] : i \in DOMAIN ACTION_PREDICTIONS} |->
        CASE a = "like" -> <<1, 1>>
          [] a = "reply" -> <<6, 5>>
          [] a = "repost" -> <<1, 1>>
          [] a = "not_interested" -> <<-2, 1>>
          [] a = "block_author" -> <<-10, 1>>
          [] a = "mute_author" -> <<-5, 1>>]

\* WeightedScorer.__init__: self.weights = weights or settings.DEFAULT_WEIGHTS
\* (None and the empty dict are both <<>>)
ScorerWeights(weights) == IF weights = <<>> THEN DEFAULT_WEIGHTS ELSE weights

\* weight = self.weights.get(action, 0.0)
WeightOfMutant(weights, action) ==
    IF action \in DOMAIN weights THEN weights[action] ELSE DEFAULT_WEIGHTS[action]
WeightOf(weights, action) ==
    IF action \in DOMAIN weights THEN weights[action] ELSE Zero

\* WeightedScorer.score: the loop over predictions.items(), a dict that holds
\* its actions in the order of ACTION_PREDICTIONS
WeightedScore(weights, predictions) ==
    LET RECURSIVE Loop(_, _)
        Loop(i, score) ==
            IF i > Len(ACTION_PREDICTIONS) THEN score
            ELSE LET action == ACTION_PREDICTIONS[i]
                 IN  IF action \in DOMAIN predictions
                     THEN Loop(i + 1, RAdd(score, RMul(WeightOf(weights, action),
                                                       predictions[action])))
                     ELSE Loop(i + 1, score)
    IN  Loop(1, Zero)

\* list.sort(key=lambda x: x[1], reverse=True), a stable sort: an entry goes
\* behind every entry whose score is not below its own
SortInsertMutant(sorted, x) ==
    LET ahead == SelectSeq(sorted, LAMBDA y : RLess(x[2], y[2]))
    IN  ahead \o <<x>> \o SubSeq(sorted, Len(ahead) + 1, Len(sorted))
SortInsert(sorted, x) ==
    LET ahead == SelectSeq(sorted, LAMBDA y : ~RLess(y[2], x[2]))
    IN  ahead \o <<x>> \o SubSeq(sorted, Len(ahead) + 1, Len(sorted))

RECURSIVE SortByScore(_, _)
SortByScore(rest, sorted) ==
    IF rest = <<>> THEN sorted
    ELSE SortByScore(Tail(rest), SortInsert(sorted, Head(rest)))

\* A scorer's work is kept in two parts: result, the list as its loop built
\* it, and output, that list after the sort.
Sorted(result) == [result |-> result, output |-> SortByScore(result, <<>>)]

\* WeightedScorer.score_candidates: zip ends with the shorter list
ScoreCandidates(weights, candidates, predictions) ==
    LET n == IF Len(candidates) < Len(predictions)
             THEN Len(candidates) ELSE Len(predictions)
    IN  Sorted([i \in 1..n |-> <<candidates[i], WeightedScore(weights, predictions[i])>>])

\* AuthorDiversityScorer: decay_factor, floor, and
\* multiplier = (1.0 - floor) * decay_factor ** position + floor
DECAY_FACTOR == <<7, 10>>
FLOOR == <<3, 10>>

Multiplier(position) ==
    LET RECURSIVE Power(_, _)
        Power(a, k) == IF k = 0 THEN One ELSE RMul(a, Power(a, k - 1))
    IN  RAdd(RMul(RSub(One, FLOOR), Power(DECAY_FACTOR, position)), FLOOR)

\* position = author_counts.get(author_key, 0)
PositionMutant(author_counts, author_key) ==
    IF author_key \in DOMAIN author_counts THEN author_counts[author_key] ELSE 1
Position(author_counts, author_key) ==
    IF author_key \in DOMAIN author_counts THEN author_counts[author_key] ELSE 0

RECURSIVE AuthorDiversityLoop(_, _, _)
AuthorDiversityLoop(rest, author_counts, result) ==
    IF rest = <<>> THEN result
    ELSE LET candidate == Head(rest)[1]
             score == Head(rest)[2]
             author_key == candidate.author_id
             position == Position(author_counts, author_key)
             adjusted_score == RMul(score, Multiplier(position))
         IN  AuthorDiversityLoop(
                 Tail(rest),
                 [a \in DOMAIN author_counts \cup {author_key} |->
                     IF a = author_key THEN position + 1 ELSE author_counts[a]],
                 Append(result, <<candidate, adjusted_score>>))

AuthorDiversityApply(scored_candidates) ==
    Sorted(AuthorDiversityLoop(scored_candidates, <<>>, <<>>))

\* OONScorer: weight_factor, applied `if not candidate.is_in_network`
WEIGHT_FACTOR == <<4, 5>>

ScaledMutant(candidate) == candidate.is_in_network
Scaled(candidate) == ~candidate.is_in_network

OONApply(scored_candidates) ==
    Sorted([i \in DOMAIN scored_candidates |->
               LET candidate == scored_candidates[i][1]
                   score == scored_candidates[i][2]
               IN  <<candidate,
                     IF Scaled(candidate) THEN RMul(score, WEIGHT_FACTOR) ELSE score>>])

\* ScorerPipeline.score: weighted -> diversity -> OON
ScorerPipelineScore(weights, candidates, predictions) ==
    OONApply(AuthorDiversityApply(
        ScoreCandidates(ScorerWeights(weights), candidates, predictions).output
    ).output).output

\* A PostCandidate as the sourcing branches build it: the post's columns and
\* the branch's is_in_network flag.
Sourced(id, author_id, is_in_network) ==
    [id |-> id, text |-> "t", author_id |-> author_id,
     created_at |-> 0 - DaySeconds, naive |-> FALSE, is_in_network |-> is_in_network]

\* what rank_candidates returns for a candidate: a probability per action
Prediction(like, reply, not_interested, block_author) ==
    [a \in {ACTION_PREDICTIONS[i] : i \in DOMAIN ACTION_PREDICTIONS} |->
        CASE a = "like" -> like
          [] a = "reply" -> reply
          [] a = "not_interested" -> not_interested
          [] a = "block_author" -> block_author
          [] OTHER -> Zero]

PredictionSamples ==
    { Prediction(<<1, 2>>, <<1, 10>>, <<1, 20>>, Zero),
      Prediction(<<1, 4>>, Zero, Zero, Zero),
      Prediction(Zero, <<1, 2>>, Zero, <<1, 10>>) }

\* the candidates and predictions handed to ScorerPipeline.score, and the
\* weights it was built with: the default table, or the active rows of
\* scoring_weights
ScoreInit ==
    /\ LET ScoredSamples ==
               { Sourced("p1", "a4", TRUE), Sourced("p2", "a4", FALSE),
                 Sourced("p3", "a4", TRUE), Sourced("p4", "a2", FALSE) }
           WeightSamples ==
               { DEFAULT_WEIGHTS,
                 [a \in {"like", "reply"} |-> IF a = "like" THEN <<1, 1>> ELSE <<2, 1>>] }
       IN  \E n \in 0..MaxCands :
              \E candidates \in [1..n -> ScoredSamples],
                 predictions \in [1..n -> PredictionSamples],
                 weights \in WeightSamples :
                  scoring = [candidates |-> candidates, predictions |-> predictions,
                             weights |-> weights, stages |-> <<>>]
    /\ EngageIdle /\ UpdateIdle /\ FilterIdle
    /\ chain = <<>> /\ store = <<>> /\ rec = <<>> /\ backfill = <<>>

\* one scorer of ScorerPipeline.score has run: its input and what it made
Scorer(name, input, work) ==
    /\ scoring' = [scoring EXCEPT !.stages =
                      Append(@, [name |-> name, input |-> input,
                                 result |-> work.result, output |-> work.output])]
    /\ UNCHANGED <<engageVars, updateVars, filterVars, chain, store, rec, backfill>>

Stage1 ==
    /\ Len(scoring.stages) = 0
    /\ Scorer("Weighted", scoring.candidates,
              ScoreCandidates(ScorerWeights(scoring.weights),
                              scoring.candidates, scoring.predictions))

Stage2 ==
    /\ Len(scoring.stages) = 1
    /\ Scorer("AuthorDiversity", scoring.stages[1].output,
              AuthorDiversityApply(scoring.stages[1].output))

Stage3 ==
    /\ Len(scoring.stages) = 2
    /\ Scorer("OON", scoring.stages[2].output, OONApply(scoring.stages[2].output))

ScoreNext == Stage1 \/ Stage2 \/ Stage3

SpecScore == ScoreInit /\ [][ScoreNext]_vars

\* ----------------------------------------------------------- pipeline.py
\* settings.THUNDER_MAX_RESULTS, settings.PHOENIX_MAX_RESULTS
THUNDER_MAX_RESULTS == 300
PHOENIX_MAX_RESULTS == 300

\* table posts, newest first: p5 is a reply, p4 the requesting user's own
PostsTable ==
    LET Row(id, author_id, age, is_reply) ==
            [id |-> id, author_id |-> author_id, content |-> "t",
             created_at |-> 0 - age, is_reply |-> is_reply]
    IN  << Row("p1", "a4", DaySeconds, FALSE), Row("p2", "a2", DaySeconds + 1, FALSE),
           Row("p3", "a3", DaySeconds + 2, FALSE), Row("p4", "u1", DaySeconds + 3, FALSE),
           Row("p5", "a4", DaySeconds + 4, TRUE) >>

\* table post_embeddings: one row per post, the embedding as its coordinate
EmbeddingsTable ==
    [i \in DOMAIN PostsTable |->
        [post_id |-> PostsTable[i].id,
         embedding_128 |-> IF PostsTable[i].author_id = "a2" THEN RNeg(One) ELSE One]]

\* table scoring_weights: no row, inactive rows only, active and inactive rows
WeightRowSamples ==
    LET Row(action_type, weight, is_active) ==
            [action_type |-> action_type, weight |-> weight, is_active |-> is_active]
    IN  { <<>>,
          <<Row("like", <<3, 1>>, FALSE), Row("reply", <<3, 1>>, FALSE)>>,
          <<Row("like", <<2, 1>>, TRUE), Row("reply", <<3, 1>>, FALSE),
            Row("not_interested", <<-1, 1>>, TRUE)>> }

StoreSamples ==
    [follows : {{}, {"a2"}, {"a2", "a4"}},
     blocks : {{}, {"a2", "a4"}},
     mutes : {{}, {"a3"}},
     posts : {PostsTable},
     post_embeddings : {<<>>, EmbeddingsTable},
     user_embeddings : {<<>>, <<[embedding_128 |-> One]>>},
     scoring_weights : WeightRowSamples]

NoRecResponse == [http |-> 0, posts |-> <<>>, scores |-> <<>>, total_candidates |-> 0]

RecInit ==
    /\ store \in StoreSamples
    /\ \E limit \in {1, 2} :
          rec = [pc |-> "get_user_embedding", user_id |-> "u1", limit |-> limit,
                 user_embedding |-> Zero, following |-> {}, blocked |-> {},
                 muted |-> {}, in_network |-> <<>>, oon_candidates |-> <<>>,
                 total_candidates |-> 0, filtered_candidates |-> <<>>,
                 predictions |-> <<>>, db_weights |-> <<>>,
                 scored_candidates |-> <<>>, failed |-> {}, calls |-> <<>>,
                 response |-> NoRecResponse]
    /\ EngageIdle /\ UpdateIdle /\ FilterIdle
    /\ chain = <<>> /\ scoring = <<>> /\ backfill = <<>>

\* the request moves on: its new locals, the call it made, and whether that
\* call failed (a store or model call may fail while fewer than MaxFaults
\* calls have failed)
Advance(call, ok, locals) ==
    /\ ok \/ Cardinality(rec.failed) < MaxFaults
    /\ rec' = [locals EXCEPT !.calls = Append(@, call),
                             !.failed = IF ok THEN @ ELSE @ \cup {call}]
    /\ UNCHANGED <<store, engageVars, updateVars, filterVars, chain, scoring, backfill>>

\* get_user_embedding: the stored vector, or zeros when there is no row or
\* the read fails
PipelineGetUserEmbedding ==
    /\ rec.pc = "get_user_embedding"
    /\ \E ok \in BOOLEAN :
          Advance("user_embeddings", ok,
                  [rec EXCEPT !.pc = "get_following_list",
                              !.user_embedding =
                                  IF ok /\ store.user_embeddings # <<>>
                                  THEN store.user_embeddings[1].embedding_128
                                  ELSE Zero])

GetFollowingList ==
    /\ rec.pc = "get_following_list"
    /\ \E ok \in BOOLEAN :
          Advance("follows", ok,
                  [rec EXCEPT !.pc = "get_blocked_muted_authors",
                              !.following = IF ok THEN store.follows ELSE {}])

\* get_blocked_muted_authors: blocked and muted start empty, the blocks read
\* and then the mutes read stand in one try, and what was assigned when a
\* read fails is what is returned
BlockedMutedMutant(failed_read) ==
    IF failed_read = "none" THEN <<store.blocks, store.mutes>> ELSE <<{}, {}>>
BlockedMuted(failed_read) ==
    CASE failed_read = "blocks" -> <<{}, {}>>
      [] failed_read = "mutes" -> <<store.blocks, {}>>
      [] OTHER -> <<store.blocks, store.mutes>>

GetBlockedMutedAuthors ==
    /\ rec.pc = "get_blocked_muted_authors"
    /\ \E failed_read \in {"none", "blocks", "mutes"} :
          Advance(IF failed_read = "none" THEN "blocks, mutes" ELSE failed_read,
                  failed_read = "none",
                  [rec EXCEPT !.pc = "fetch_in_network_candidates",
                              !.blocked = BlockedMuted(failed_read)[1],
                              !.muted = BlockedMuted(failed_read)[2]])

\* PostCandidate(id=..., text=..., author_id=..., created_at=..., is_in_network=...)
PostCandidate(post, is_in_network) ==
    [id |-> post.id, text |-> post.content, author_id |-> post.author_id,
     created_at |-> post.created_at, naive |-> FALSE,
     is_in_network |-> is_in_network]

\* rows[:limit]
LimitMutant(rows, limit) == rows
Limit(rows, limit) == SubSeq(rows, 1, IF Len(rows) < limit THEN Len(rows) ELSE limit)

\* fetch_in_network_candidates: no read without a following list; else the
\* top-level posts of the followed authors, newest first, at most limit
InNetworkCandidatesMutant(following, limit) == <<>>
InNetworkCandidates(following, limit) ==
    LET data == Limit(SelectSeq(store.posts,
                                LAMBDA post : post.author_id \in following
                                              /\ ~post.is_reply), limit)
    IN  [i \in DOMAIN data |-> PostCandidate(data[i], TRUE)]

FetchInNetworkCandidates ==
    /\ rec.pc = "fetch_in_network_candidates"
    /\ \E ok \in IF rec.following = {} THEN {TRUE} ELSE BOOLEAN :
          Advance(IF rec.following = {} THEN "no read" ELSE "posts", ok,
                  [rec EXCEPT !.pc = "fetch_out_of_network_candidates",
                              !.in_network =
                                  IF ok THEN InNetworkCandidates(rec.following,
                                                                 THUNDER_MAX_RESULTS)
                                  ELSE <<>>])

\* fetch_out_of_network_candidates: the embedding rows by descending
\* similarity to the user embedding, the first limit post ids of them, and
\* the top-level posts with those ids
OutOfNetworkCandidatesMutant(user_embedding, limit) ==
    LET similarities == [i \in DOMAIN store.post_embeddings |->
                            <<store.post_embeddings[i].post_id,
                              RMul(user_embedding, store.post_embeddings[i].embedding_128)>>]
        above == SelectSeq(similarities, LAMBDA s : RLess(Zero, s[2]))
        top == Limit(SortByScore(above, <<>>), limit)
        top_post_ids == {top[i][1] : i \in DOMAIN top}
        data == SelectSeq(store.posts,
                          LAMBDA post : post.id \in top_post_ids /\ ~post.is_reply)
    IN  [i \in DOMAIN data |-> PostCandidate(data[i], FALSE)]
OutOfNetworkCandidates(user_embedding, limit) ==
    LET similarities == [i \in DOMAIN store.post_embeddings |->
                            <<store.post_embeddings[i].post_id,
                              RMul(user_embedding, store.post_embeddings[i].embedding_128)>>]
        top == Limit(SortByScore(similarities, <<>>), limit)
        top_post_ids == {top[i][1] : i \in DOMAIN top}
        data == SelectSeq(store.posts,
                          LAMBDA post : post.id \in top_post_ids /\ ~post.is_reply)
    IN  [i \in DOMAIN data |-> PostCandidate(data[i], FALSE)]

FetchOutOfNetworkCandidates ==
    /\ rec.pc = "fetch_out_of_network_candidates"
    /\ \E ok \in BOOLEAN :
          Advance("post_embeddings, posts", ok,
                  [rec EXCEPT !.pc = "filter",
                              !.oon_candidates =
                                  IF ok THEN OutOfNetworkCandidates(rec.user_embedding,
                                                                    PHOENIX_MAX_RESULTS)
                                  ELSE <<>>])

\* the response of generate_recommendations
Response(posts, scores, total_candidates) ==
    [http |-> 200, posts |-> posts, scores |-> scores,
     total_candidates |-> total_candidates]

\* `if not all_candidates`
NoCandidatesMutant(all_candidates) == FALSE
NoCandidates(all_candidates) == all_candidates = <<>>

\* all_candidates = in_network + oon_candidates
AllCandidatesMutant(in_network, oon_candidates) == oon_candidates \o in_network
AllCandidates(in_network, oon_candidates) == in_network \o oon_candidates

\* `if not filtered_candidates`
NoneLeftMutant(filtered_candidates) == FALSE
NoneLeft(filtered_candidates) == filtered_candidates = <<>>

\* all_candidates = in_network + oon_candidates; the empty response without
\* them; else FilterPipeline(user_id, blocked, muted).apply and the empty
\* response when nothing is left
MergeAndFilter ==
    /\ rec.pc = "filter"
    /\ LET all_candidates == AllCandidates(rec.in_network, rec.oon_candidates)
           total_candidates == Len(all_candidates)
           filtered_candidates ==
               FilterPipelineApply(all_candidates, 0,
                                   [user_id |-> rec.user_id, blocked |-> rec.blocked,
                                    muted |-> rec.muted]).candidates
       IN  IF NoCandidates(all_candidates)
           THEN Advance("return", TRUE,
                        [rec EXCEPT !.pc = "done", !.response = Response(<<>>, <<>>, 0)])
           ELSE IF NoneLeft(filtered_candidates)
           THEN Advance("FilterPipeline.apply", TRUE,
                        [rec EXCEPT !.pc = "done",
                                    !.total_candidates = total_candidates,
                                    !.response = Response(<<>>, <<>>, total_candidates)])
           ELSE Advance("FilterPipeline.apply", TRUE,
                        [rec EXCEPT !.pc = "rank",
                                    !.total_candidates = total_candidates,
                                    !.filtered_candidates = filtered_candidates])

\* self.minilm.rank_candidates: one prediction per candidate; a failure of
\* the model is caught by get_recommendations alone, which answers 500
RankCandidates ==
    /\ rec.pc = "rank"
    /\ \/ \E predictions \in [DOMAIN rec.filtered_candidates ->
                                 {p \in PredictionSamples : p["like"] # Zero}] :
             Advance("rank_candidates", TRUE,
                     [rec EXCEPT !.pc = "load_scoring_weights",
                                 !.predictions = predictions])
       \/ Advance("rank_candidates", FALSE,
                  [rec EXCEPT !.pc = "done",
                              !.response = [NoRecResponse EXCEPT !.http = 500]])

\* _load_scoring_weights: the weights of the active rows when the read
\* succeeds and there is one, else settings.DEFAULT_WEIGHTS
ActiveWeightsMutant(rows) ==
    [a \in DOMAIN DEFAULT_WEIGHTS |->
        LET active == SelectSeq(rows, LAMBDA row : row.action_type = a /\ row.is_active)
        IN  IF active = <<>> THEN DEFAULT_WEIGHTS[a] ELSE active[Len(active)].weight]
ActiveWeights(rows) ==
    [a \in {rows[i].action_type : i \in {j \in DOMAIN rows : rows[j].is_active}} |->
        LET active == SelectSeq(rows, LAMBDA row : row.action_type = a /\ row.is_active)
        IN  active[Len(active)].weight]

LoadedWeights(ok, rows) ==
    IF ok /\ rows # <<>> /\ ActiveWeights(rows) # <<>>
    THEN ActiveWeights(rows) ELSE DEFAULT_WEIGHTS

LoadScoringWeights ==
    /\ rec.pc = "load_scoring_weights"
    /\ \E ok \in BOOLEAN :
          Advance("scoring_weights", ok,
                  [rec EXCEPT !.pc = "score",
                              !.db_weights = LoadedWeights(ok, store.scoring_weights)])

\* ScorerPipeline(weights=db_weights).score, top_k = scored_candidates[:limit]
\* and the response built of it
ScoreAndSelect ==
    /\ rec.pc = "score"
    /\ LET scored_candidates ==
               ScorerPipelineScore(rec.db_weights, rec.filtered_candidates,
                                   rec.predictions)
           top_k == Limit(scored_candidates, rec.limit)
       IN  Advance("ScorerPipeline.score", TRUE,
                   [rec EXCEPT !.pc = "done",
                               !.scored_candidates = scored_candidates,
                               !.response =
                                   Response([i \in DOMAIN top_k |->
                                                [id |-> top_k[i][1].id,
                                                 text |-> top_k[i][1].text,
                                                 author_id |-> top_k[i][1].author_id,
                                                 is_in_network |-> top_k[i][1].is_in_network]],
                                            [i \in DOMAIN top_k |-> top_k[i][2]],
                                            rec.total_candidates)])

RecNext ==
    \/ PipelineGetUserEmbedding
    \/ GetFollowingList
    \/ GetBlockedMutedAuthors
    \/ FetchInNetworkCandidates
    \/ FetchOutOfNetworkCandidates
    \/ MergeAndFilter
    \/ RankCandidates
    \/ LoadScoringWeights
    \/ ScoreAndSelect

SpecRecommend == RecInit /\ [][RecNext]_vars

\* ------------------------------------------------ claims: log_engagement
Arrived(r) == pc[r] # "idle"
Accepted(r) == Arrived(r) /\ ~AuthRejected(req[r].hdr)
Stored(data) == {e \in events : SameTriple(e, data)}
Submitters(data) == {r \in Slots : Accepted(r) /\ EventOf(req[r]) = data}
Learners(data) == {r \in Submitters(data) : hist[r].learnCalls > 0}
LikeEvents == {[user_id |-> u, post_id |-> p, event_type |-> "like"] :
                u \in Users, p \in Posts}

C2_ConflictIsNoOp ==
    \A r \in Slots :
        /\ hist[r].learnCalls > 0 => hist[r].insert = "ok"
        /\ hist[r].insert = "conflict" =>
            /\ pc[r] = "done"
            /\ resp[r] = AlreadyLogged
            /\ hist[r].inserts = 1
            /\ hist[r].learnCalls = 0
            /\ hist[r].reads = 0
            /\ hist[r].wrote = {}

C2_Witness ==
    \E r \in Slots : hist[r].insert = "conflict" /\ pc[r] = "done"

\* C3: a request whose insert succeeded answers 200 "success" with the id of
\* the event it inserted, and that event is still stored, whatever failed in
\* the online-learning call that followed.
C3_LearningFailureKeepsSuccess ==
    \A r \in Slots :
        (pc[r] = "done" /\ hist[r].insert = "ok") =>
            /\ EventId(r) # None
            /\ resp[r] = [http |-> 200, status |-> "success", message |-> "",
                          event_id |-> EventId(r)]
            /\ \E e \in events : e.id = EventId(r)[1] /\ SameTriple(e, EventOf(req[r]))

C3_Witness ==
    \E r \in Slots :
        /\ pc[r] = "done" /\ hist[r].insert = "ok"
        /\ hist[r].learnCalls > 0 /\ hist[r].learnFailed
        /\ resp[r].status = "success"

\* C4: a request without an Authorization header, or whose header yields an
\* empty token, is answered with status 401, inserts no event and triggers no
\* online learning.
C4_RejectedWith401 ==
    \A r \in Slots :
        (pc[r] = "done" /\ AuthRejected(req[r].hdr)) =>
            /\ resp[r].http = 401
            /\ hist[r].inserts = 0
            /\ hist[r].learnCalls = 0

\* a request without a usable token has been answered 500, nothing inserted
C4_RejectedWith500 ==
    \E r \in Slots :
        /\ pc[r] = "done" /\ ~req[r].hdr.present
        /\ resp[r].http = 500
        /\ hist[r].inserts = 0 /\ hist[r].learnCalls = 0

\* C5: process_engagement for an action type whose signal is 0 ("view") or
\* that the signal table does not hold ("bookmark") returns without a store
\* read and without a store write.
C5_ZeroSignalTouchesNothing ==
    \A r \in Slots :
        (hist[r].learnCalls > 0 /\ req[r].event_type \in {"view", "bookmark"}) =>
            /\ pc[r] = "done"
            /\ hist[r].reads = 0
            /\ hist[r].wrote = {}

C5_Witness ==
    /\ \E r \in Slots : hist[r].learnCalls > 0 /\ req[r].event_type = "view"
    /\ \E r \in Slots : hist[r].learnCalls > 0 /\ req[r].event_type = "bookmark"

\* C6: a process_engagement call that found no user row or no post row, or
\* one of whose two reads failed, returns without writing either row.
C6_MissingEmbeddingWritesNothing ==
    \A r \in Slots :
        hist[r].missing => pc[r] = "done" /\ hist[r].wrote = {}

C6_Witness ==
    \E r \in Slots :
        /\ hist[r].missing /\ ~hist[r].learnFailed
        /\ userRows[req[r].user_id] = NoData
        /\ postRows[req[r].post_id] # NoData

\* C7: every write of a user's row stores the counter that was stored just
\* before the write plus 1 (so the stored counter never decreases), in every
\* interleaving of the updates.
C7_CounterRaisedByOne ==
    [][\A r \in Slots :
        (/\ pc[r] = "upd_user_write" /\ "user" \in hist'[r].wrote
         /\ userRows[req[r].user_id] # NoData) =>
            userRows'[req[r].user_id][1].engagement_count
                = userRows[req[r].user_id][1].engagement_count + 1]_vars

\* a later write has left a smaller counter than an earlier write stored
C7_CounterWentDown ==
    \E r \in Slots :
        /\ "user" \in hist[r].wrote
        /\ userRows[req[r].user_id] # NoData
        /\ hist[r].count > userRows[req[r].user_id][1].engagement_count

\* ------------------------------------------- claims: the embedding updates
\* C8: the vector a user update or a post update stores is the zero vector or
\* has norm 1, for every signal of the table and every counter, the stored
\* vectors it starts from being zero or of norm 1.
C8_ZeroOrUnit ==
    upd.op # "none" => IsZeroVec(upd.result) \/ IsUnitVec(upd.result)

\* a user update has stored a vector that is neither: the blend of a zero
\* vector, of norm alpha * |signal| below the threshold, left as it is
C8_StoredBelowThreshold ==
    /\ upd.op = "user"
    /\ IsZeroVec(upd.current) /\ IsUnitVec(upd.other)
    /\ upd.count = MaxCount /\ upd.event_type = "like"
    /\ ~IsZeroVec(upd.result) /\ ~IsUnitVec(upd.result)
    /\ NormalizeSkips(upd.result)

\* ------------------------------------------------------ claims: filters
\* C9: the output of every filter application is a subsequence of its input
\* (no longer, only input candidates, in input order), and the list that was
\* handed to the filter is afterwards what it was.
C9_OutputIsSubsequence ==
    LET Stages == first \o second
        RECURSIVE IsSubsequence(_, _)
        IsSubsequence(s, t) ==
            IF s = <<>> THEN TRUE
            ELSE IF t = <<>> THEN FALSE
            ELSE IF Head(s) = Head(t) THEN IsSubsequence(Tail(s), Tail(t))
            ELSE IsSubsequence(s, Tail(t))
    IN  /\ \A i \in DOMAIN Stages :
            /\ IsSubsequence(Stages[i].candidates, Stages[i].input)
            /\ Len(Stages[i].candidates) <= Len(Stages[i].input)
            /\ \A k \in DOMAIN Stages[i].candidates :
                  \E j \in DOMAIN Stages[i].input :
                      Stages[i].candidates[k] = Stages[i].input[j]
        /\ first # <<>> => first[1].input = given
        /\ second # <<>> => second[1].input = first[1].candidates

C9_Witness ==
    /\ first # <<>> /\ second # <<>>
    /\ first[1].name = "DropDuplicates"
    /\ first[1].removed_count > 0
    /\ Len(first[1].candidates) > 1
    /\ second[1].removed_count > 0
    /\ second[1].candidates # <<>>

\* C10: a filter applied to its own output at the same request time returns
\* that list and removes 0 candidates.
C10_SecondApplicationRemovesNothing ==
    (/\ first # <<>> /\ second # <<>>
     /\ second[1].name = first[1].name
     /\ second[1].now = first[1].now)
    => /\ second[1].candidates = first[1].candidates
       /\ second[1].removed_count = 0

C10_Witness ==
    /\ first # <<>> /\ second # <<>>
    /\ second[1].name = first[1].name
    /\ second[1].now = first[1].now
    /\ first[1].name \in {"DropDuplicates", "Age"}
    /\ first[1].removed_count > 1
    /\ first[1].candidates # <<>>

\* C11 as stated: once all five filters have been applied, in whatever order,
\* the set of surviving candidates is the set that FilterPipeline.apply leaves
\* of the same list, also when one post id occurs with differing text, author
\* or timestamp.
C11_AnyOrderSameSurvivors ==
    Len(chain) = Len(FilterOrder) =>
        {chain[Len(chain)].candidates[i] : i \in DOMAIN chain[Len(chain)].candidates}
        = LET piped == FilterPipelineApply(given, clock, social).candidates
          IN  {piped[i] : i \in DOMAIN piped}

\* C11, amended: for a candidate list in which the candidates that share a
\* post id agree in text, author and timestamp, every order of the five
\* filters leaves the set of candidates that FilterPipeline.apply leaves.
C11_SameSurvivorsWhenCopiesAgree ==
    (/\ Len(chain) = Len(FilterOrder)
     /\ \A i, j \in DOMAIN given : given[i].id = given[j].id => given[i] = given[j])
    => {chain[Len(chain)].candidates[i] : i \in DOMAIN chain[Len(chain)].candidates}
       = LET piped == FilterPipelineApply(given, clock, social).candidates
         IN  {piped[i] : i \in DOMAIN piped}

\* all five filters applied, DropDuplicates last, to a list that holds one
\* candidate twice and one that another filter removes; something survives
C11_Witness ==
    /\ Len(chain) = Len(FilterOrder)
    /\ chain[Len(chain)].name = "DropDuplicates"
    /\ chain[Len(chain)].removed_count > 0
    /\ chain[Len(chain)].candidates # <<>>
    /\ \E k \in 1..(Len(chain) - 1) : chain[k].removed_count > 0
    /\ \A i, j \in DOMAIN given : given[i].id = given[j].id => given[i] = given[j]

\* C12 as stated: the Age filter keeps exactly the candidates that are not older
\* than the window, so a candidate whose age equals the window is kept; a
\* timestamp without timezone counts as UTC.
C12_KeptIffNotOlderThanWindow ==
    \A stage \in {first[i] : i \in DOMAIN first} \cup {second[i] : i \in DOMAIN second} :
        stage.name = "Age" =>
            stage.candidates
            = SelectSeq(stage.input, LAMBDA c : stage.now - c.created_at <= Window)

\* the Age filter has removed a candidate whose age is the window exactly
C12_RemovedAtExactlyWindow ==
    /\ first # <<>>
    /\ first[1].name = "Age"
    /\ \E i \in DOMAIN first[1].input :
          /\ first[1].now - first[1].input[i].created_at = Window
          /\ \A j \in DOMAIN first[1].candidates :
                first[1].candidates[j] # first[1].input[i]

\* C13: the Self-authorship filter keeps exactly the candidates whose author is
\* not the requesting user, and the Social-graph filter exactly those whose
\* author is neither blocked nor muted; no other candidate is removed.
C13_RemovesExactlyTheListedAuthors ==
    \A stage \in {first[i] : i \in DOMAIN first} \cup {second[i] : i \in DOMAIN second} :
        /\ stage.name = "SelfTweet" =>
              /\ stage.candidates
                 = SelectSeq(stage.input, LAMBDA c : c.author_id # social.user_id)
              /\ stage.removed_count = Len(stage.input) - Len(stage.candidates)
        /\ stage.name = "AuthorSocialgraph" =>
              /\ stage.candidates
                 = SelectSeq(stage.input,
                             LAMBDA c : c.author_id \notin social.blocked \cup social.muted)
              /\ stage.removed_count = Len(stage.input) - Len(stage.candidates)

\* the Social-graph filter has removed a muted author's post and kept another
\* author's, and the Self-authorship filter has removed the user's own post
C13_Witness ==
    /\ first # <<>> /\ second # <<>>
    /\ first[1].name = "AuthorSocialgraph"
    /\ \E i \in DOMAIN first[1].input : first[1].input[i].author_id \in social.muted
    /\ first[1].removed_count > 0
    /\ first[1].candidates # <<>>
    /\ second[1].name = "SelfTweet"
    /\ second[1].removed_count > 0

\* C14 as stated: no post of a response is by the requesting user or by an
\* author the store lists as blocked or muted by that user, also when the
\* read of the block list or of the mute list has failed.
C14_NoSelfBlockedMutedPost ==
    \A i \in DOMAIN rec.response.posts :
        /\ rec.response.posts[i].author_id # rec.user_id
        /\ rec.response.posts[i].author_id \notin store.blocks \cup store.mutes

\* C14, amended: no post of a response is by the requesting user or by an
\* author of the block and mute lists as the request loaded them; these are
\* the store's lists when both reads succeed, both empty when the block-list
\* read fails, and the store's block list with an empty mute list when the
\* mute-list read fails.
C14_NoPostOfLoadedLists ==
    rec # <<>> /\ rec.pc \notin {"get_user_embedding", "get_following_list",
                                "get_blocked_muted_authors"} =>
        /\ rec.blocked = IF "blocks" \in rec.failed THEN {} ELSE store.blocks
        /\ rec.muted = IF rec.failed \cap {"blocks", "mutes"} # {} THEN {}
                       ELSE store.mutes
        /\ \A i \in DOMAIN rec.response.posts :
              /\ rec.response.posts[i].author_id # rec.user_id
              /\ rec.response.posts[i].author_id \notin rec.blocked \cup rec.muted

\* a response with a post, after the mute-list read failed, for a user who
\* has a blocked author with a sourced post, a muted author, and an own post
\* among the sourced candidates
C14_Witness ==
    /\ rec # <<>> /\ rec.pc = "done"
    /\ rec.response.posts # <<>>
    /\ "mutes" \in rec.failed
    /\ store.blocks # {} /\ store.mutes # {}
    /\ \E i \in DOMAIN rec.in_network : rec.in_network[i].author_id \in store.blocks
    /\ \E i \in DOMAIN rec.oon_candidates : rec.oon_candidates[i].author_id = rec.user_id

\* C16: the weights of a request are the full default table when the store
\* holds no weight row, the read fails or every row is inactive; with an
\* active row they are the active rows and nothing else, so that an action
\* without an active row weighs 0 and not its default.
C16_WeightResolution ==
    (rec # <<>> /\ rec.pc \in {"score", "done"}
     /\ \E k \in DOMAIN rec.calls : rec.calls[k] = "scoring_weights") =>
        LET rows == store.scoring_weights
            active == {i \in DOMAIN rows : rows[i].is_active}
            used == ScorerWeights(rec.db_weights)
        IN  /\ ("scoring_weights" \in rec.failed \/ active = {})
                  => used = DEFAULT_WEIGHTS
            /\ ("scoring_weights" \notin rec.failed /\ active # {})
                  => /\ DOMAIN used = {rows[i].action_type : i \in active}
                     /\ \A i \in active : used[rows[i].action_type] = rows[i].weight
                     /\ \A a \in DOMAIN DEFAULT_WEIGHTS \ DOMAIN used :
                           WeightOf(used, a) = Zero
            /\ rec.pc = "done"
                  => rec.scored_candidates
                     = ScorerPipelineScore(used, rec.filtered_candidates, rec.predictions)

\* a response scored with the one active row of a table that also holds an
\* inactive row, a candidate having a non-zero probability for the action of
\* the inactive row
C16_Witness ==
    /\ rec # <<>> /\ rec.pc = "done"
    /\ rec.response.posts # <<>>
    /\ "scoring_weights" \notin rec.failed
    /\ \E i, j \in DOMAIN store.scoring_weights :
          /\ store.scoring_weights[i].is_active
          /\ ~store.scoring_weights[j].is_active
          /\ store.scoring_weights[j].action_type \notin DOMAIN rec.db_weights
          /\ \E k \in DOMAIN rec.predictions :
                rec.predictions[k][store.scoring_weights[j].action_type] # Zero

\* C15: the stage-1 score of a candidate is the sum over the six predicted
\* actions of weight x probability, an action without a configured weight
\* counting 0; the default weights give the predictions
\* {like 0.5, reply 0.1, not_interested 0.05, others 0} the score 0.52.
C15_ScoreIsWeightedSum ==
    \A k \in DOMAIN scoring.stages :
        scoring.stages[k].name = "Weighted" =>
            \A i \in DOMAIN scoring.stages[k].result :
                LET p == scoring.predictions[i]
                    w == [a \in DOMAIN p |->
                             IF a \in DOMAIN scoring.weights
                             THEN scoring.weights[a] ELSE Zero]
                    Term(a) == RMul(w[a], p[a])
                    score == scoring.stages[k].result[i][2]
                IN  /\ scoring.stages[k].result[i][1] = scoring.candidates[i]
                    /\ score = RAdd(RAdd(RAdd(Term("like"), Term("reply")),
                                         RAdd(Term("repost"), Term("not_interested"))),
                                    RAdd(Term("block_author"), Term("mute_author")))
                    /\ (/\ scoring.weights = DEFAULT_WEIGHTS
                        /\ p = Prediction(<<1, 2>>, <<1, 10>>, <<1, 20>>, Zero))
                       => score = <<13, 25>>

\* stage 1 has scored the example prediction under the default weights
C15_Witness ==
    /\ Len(scoring.stages) >= 1
    /\ \E i \in DOMAIN scoring.predictions :
          scoring.predictions[i] = Prediction(<<1, 2>>, <<1, 10>>, <<1, 20>>, Zero)
    /\ scoring.weights = DEFAULT_WEIGHTS
    /\ scoring.stages[1].result # <<>>

C18_OnlyOutOfNetworkScaled ==
    \A k \in DOMAIN scoring.stages :
        scoring.stages[k].name = "OON" =>
            LET in == scoring.stages[k].input
                out == scoring.stages[k].result
                final == scoring.stages[k].output
            IN  /\ Len(out) = Len(in)
                /\ \A i \in DOMAIN in :
                      /\ out[i][1] = in[i][1]
                      /\ in[i][1].is_in_network => out[i][2] = in[i][2]
                      /\ ~in[i][1].is_in_network
                            => out[i][2] = RMul(in[i][2], <<8, 10>>)
                /\ Len(final) = Len(in)
                /\ \A e \in {out[i] : i \in DOMAIN out} :
                      Len(SelectSeq(final, LAMBDA x : x = e))
                      = Len(SelectSeq(out, LAMBDA x : x = e))

\* the stage has scaled an out-of-network score and passed an in-network one
C18_Witness ==
    /\ Len(scoring.stages) = 3
    /\ \E i, j \in DOMAIN scoring.stages[3].input :
          /\ scoring.stages[3].input[i][1].is_in_network
          /\ scoring.stages[3].input[i][2] # Zero
          /\ ~scoring.stages[3].input[j][1].is_in_network
          /\ scoring.stages[3].result[j][2] # scoring.stages[3].input[j][2]

\* C19: the output of each scoring stage, and so of ScorerPipeline.score, is
\* in order of non-increasing score, and entries of equal score stand in the
\* order they had in the stage's input.
C19_SortedAndStable ==
    \A k \in DOMAIN scoring.stages :
        LET made == scoring.stages[k].result
            out == scoring.stages[k].output
        IN  /\ Len(out) = Len(made)
            /\ \A i \in 1..(Len(out) - 1) : ~RLess(out[i][2], out[i + 1][2])
            /\ \A s \in {made[i][2] : i \in DOMAIN made} :
                  SelectSeq(out, LAMBDA x : x[2] = s)
                  = SelectSeq(made, LAMBDA x : x[2] = s)
            /\ k = 3
                  => out = ScorerPipelineScore(scoring.weights, scoring.candidates,
                                               scoring.predictions)

\* all three stages have run, the last one had to reorder, and an earlier
\* one had to reorder a list that holds two different candidates of equal score
C19_Witness ==
    /\ Len(scoring.stages) = 3
    /\ scoring.stages[3].output # scoring.stages[3].result
    /\ \E k \in 1..2 :
          /\ scoring.stages[k].output # scoring.stages[k].result
          /\ \E i, j \in DOMAIN scoring.stages[k].output :
                /\ i < j
                /\ scoring.stages[k].output[i][2] = scoring.stages[k].output[j][2]
                /\ scoring.stages[k].output[i][1] # scoring.stages[k].output[j][1]

\* C20: when the two sourcing branches return no candidate at all, the
\* request answers posts = [], scores = [], total_candidates = 0 without an
\* error and without invoking the filter chain, the ranking model, the
\* weight load or the scorers.
C20_NoCandidatesEmptyResponse ==
    (rec # <<>> /\ rec.pc \notin {"get_user_embedding", "get_following_list",
                                 "get_blocked_muted_authors",
                                 "fetch_in_network_candidates",
                                 "fetch_out_of_network_candidates", "filter"}
     /\ rec.in_network \o rec.oon_candidates = <<>>) =>
        /\ rec.pc = "done"
        /\ rec.response = [http |-> 200, posts |-> <<>>, scores |-> <<>>,
                           total_candidates |-> 0]
        /\ \A k \in DOMAIN rec.calls :
              rec.calls[k] \notin {"FilterPipeline.apply", "rank_candidates",
                                   "scoring_weights", "ScorerPipeline.score"}

\* a request of a user who follows no one, with no embedding row in the
\* store, has been answered
C20_Witness ==
    /\ rec # <<>> /\ rec.pc = "done"
    /\ store.follows = {} /\ store.post_embeddings = <<>>
    /\ rec.failed = {}
    /\ rec.in_network \o rec.oon_candidates = <<>>
    /\ rec.response.http = 200

\* C21: in a response posts and scores have one length, at most the requested
\* limit; the i-th score is the final score of the i-th post; and the posts
\* are the first min(limit, n) entries of the ordering the third scoring
\* stage leaves of the n filtered candidates.
C21_ResponseIsTopOfFinalOrdering ==
    (rec.pc = "done" /\ rec.response.http = 200) =>
        LET posts == rec.response.posts
            scores == rec.response.scores
            final == OONApply(AuthorDiversityApply(
                         ScoreCandidates(ScorerWeights(rec.db_weights),
                                         rec.filtered_candidates,
                                         rec.predictions).output).output).output
            n == Len(rec.filtered_candidates)
        IN  /\ Len(posts) = Len(scores)
            /\ Len(posts) <= rec.limit
            /\ rec.filtered_candidates # <<>> =>
                  /\ Len(final) = n
                  /\ Len(posts) = IF rec.limit < n THEN rec.limit ELSE n
                  /\ \A i \in DOMAIN posts :
                        /\ posts[i].id = final[i][1].id
                        /\ posts[i].author_id = final[i][1].author_id
                        /\ posts[i].is_in_network = final[i][1].is_in_network
                        /\ scores[i] = final[i][2]

\* a response that is shorter than the final ordering, whose first entry is
\* not the first filtered candidate
C21_Witness ==
    /\ rec.pc = "done" /\ rec.response.http = 200
    /\ rec.response.posts # <<>>
    /\ Len(rec.response.posts) < Len(rec.scored_candidates)
    /\ rec.response.posts[1].id # rec.filtered_candidates[1].id

\* C22: when one of the two sourcing fetches fails and the other does not,
\* the failed branch contributes the empty list, the other branch contributes
\* its candidates, these go through the filters and the scorers, and the
\* request is answered with 200 (the ranking model call succeeding).
C22_OneSourcingFailureDegrades ==
    LET inFailed == "posts" \in rec.failed
        oonFailed == "post_embeddings, posts" \in rec.failed
        sourced == rec.pc \notin {"get_user_embedding", "get_following_list",
                                  "get_blocked_muted_authors",
                                  "fetch_in_network_candidates",
                                  "fetch_out_of_network_candidates"}
        followed == SelectSeq(store.posts,
                              LAMBDA post : post.author_id \in rec.following
                                            /\ ~post.is_reply)
        embedded == SelectSeq(store.posts,
                              LAMBDA post : ~post.is_reply
                                  /\ \E i \in DOMAIN store.post_embeddings :
                                        store.post_embeddings[i].post_id = post.id)
        other == rec.in_network \o rec.oon_candidates
        survivors == FilterPipelineApply(other, 0,
                                         [user_id |-> rec.user_id,
                                          blocked |-> rec.blocked,
                                          muted |-> rec.muted]).candidates
    IN  (sourced /\ inFailed # oonFailed) =>
            /\ inFailed => /\ rec.in_network = <<>>
                           /\ Len(rec.oon_candidates) = Len(embedded)
                           /\ \A i \in DOMAIN embedded :
                                 /\ rec.oon_candidates[i].id = embedded[i].id
                                 /\ ~rec.oon_candidates[i].is_in_network
            /\ oonFailed => /\ rec.oon_candidates = <<>>
                            /\ Len(rec.in_network) = Len(followed)
                            /\ \A i \in DOMAIN followed :
                                  /\ rec.in_network[i].id = followed[i].id
                                  /\ rec.in_network[i].is_in_network
            /\ (rec.pc = "done" /\ "rank_candidates" \notin rec.failed) =>
                  /\ rec.response.http = 200
                  /\ rec.response.total_candidates = Len(other)
                  /\ {rec.response.posts[i].id : i \in DOMAIN rec.response.posts}
                     \subseteq {survivors[i].id : i \in DOMAIN survivors}
                  /\ Len(rec.response.posts)
                     = IF rec.limit < Len(survivors) THEN rec.limit ELSE Len(survivors)

\* the out-of-network fetch has failed and the response holds an in-network
\* post
C22_Witness ==
    /\ rec.pc = "done"
    /\ "post_embeddings, posts" \in rec.failed
    /\ store.post_embeddings # <<>>
    /\ rec.response.http = 200
    /\ rec.response.posts # <<>>
    /\ rec.response.posts[1].is_in_network

\* C23 as stated: when the ranking model call fails in a request that has a
\* candidate left after filtering, the request is still answered with a
\* well-formed response (200, posts and scores of one length) and not with
\* an error.
C23_RankFailureStillAnswered ==
    (rec.pc = "done" /\ "rank_candidates" \in rec.failed) =>
        /\ rec.response.http = 200
        /\ Len(rec.response.posts) = Len(rec.response.scores)

\* the ranking model call has failed on a non-empty batch and the request
\* has been answered with 500
C23_RankFailureAnswers500 ==
    /\ rec.pc = "done"
    /\ rec.filtered_candidates # <<>>
    /\ rec.failed = {"rank_candidates"}
    /\ rec.response.http = 500

\* ------------------------------------------- claims: overlapping updates
\* C24: a user-embedding update is a read followed, in a later step, by an
\* upsert, and the upsert wins over whatever is stored: the row a write
\* leaves is computed from the writer's own earlier read alone (its vector
\* blended from the vector it read, its counter the counter it read plus
\* one), whatever other requests have stored in between, and the user rows
\* change at no other step.
C24_LastWriteWins ==
    [][/\ \A r \in Slots :
            (/\ pc[r] = "upd_user_write"
             /\ "user" \in hist'[r].wrote) =>
                userRows'[req[r].user_id] =
                    <<[embedding_128 |-> UserUpdate(loc[r].current, loc[r].count,
                                                    loc[r].post_emb[1],
                                                    Signal(req[r].event_type)),
                       engagement_count |-> loc[r].count + 1]>>
       /\ userRows' # userRows =>
            \E r \in Slots : pc[r] = "upd_user_write" /\ "user" \in hist'[r].wrote
      ]_vars

\* two requests for one user have both read, both written and both finished,
\* and the row they leave is the row one of them alone writes over the
\* initial row: the counter stands at 1, not 2
C24_OneUpdateLost ==
    \E r1, r2 \in Slots :
        /\ r1 # r2
        /\ pc[r1] = "done" /\ pc[r2] = "done"
        /\ req[r1].user_id = req[r2].user_id
        /\ "user" \in hist[r1].wrote /\ "user" \in hist[r2].wrote
        /\ Signal(req[r1].event_type) # Signal(req[r2].event_type)
        /\ userRows[req[r2].user_id] =
               <<[embedding_128 |-> UserUpdate(Zero, 0, One, Signal(req[r2].event_type)),
                  engagement_count |-> 1]>>

\* ------------------------------------------- claims: the order of a request
\* C25: the calls of one request are a prefix of the fixed sequence
\* read embedding, read follows, read blocks and mutes, fetch in-network,
\* fetch out-of-network, filter, rank, load weights, score: the filters run
\* only after both fetches have returned, the ranking model is called once,
\* right after the filters, with one prediction per filtered candidate at
\* the candidate's position, exactly when a candidate survives the filters,
\* and a finished request that had no survivor never called it.
C25_FixedOrderOneRankCall ==
    LET calls == rec.calls
        at(k) == IF k \in DOMAIN calls THEN calls[k] ELSE "none"
        ranked == {k \in DOMAIN calls : calls[k] = "rank_candidates"}
        survivors ==
            FilterPipelineApply(rec.in_network \o rec.oon_candidates, 0,
                                [user_id |-> rec.user_id, blocked |-> rec.blocked,
                                 muted |-> rec.muted]).candidates
    IN  /\ \A k \in DOMAIN calls :
              /\ calls[k] \in {"FilterPipeline.apply", "return"} =>
                    /\ at(k - 1) = "post_embeddings, posts"
                    /\ at(k - 2) \in {"posts", "no read"}
              /\ calls[k] = "rank_candidates" =>
                    /\ at(k - 1) = "FilterPipeline.apply"
                    /\ survivors # <<>>
                    /\ rec.filtered_candidates = survivors
              /\ calls[k] = "scoring_weights" => at(k - 1) = "rank_candidates"
              /\ calls[k] = "ScorerPipeline.score" =>
                    /\ at(k - 1) = "scoring_weights"
                    /\ DOMAIN rec.predictions = DOMAIN rec.filtered_candidates
        /\ Cardinality(ranked) <= 1
        /\ rec.pc = "done" =>
              Cardinality(ranked) = IF survivors # <<>> THEN 1 ELSE 0
        /\ (rec.pc = "done" /\ rec.response.http = 200 /\ survivors # <<>>) =>
              /\ rec.scored_candidates =
                    OONApply(AuthorDiversityApply(
                        ScoreCandidates(ScorerWeights(rec.db_weights), survivors,
                                        rec.predictions).output).output).output
              /\ Len(rec.response.posts) <= rec.limit

\* a finished request whose filters removed a sourced candidate and kept two:
\* it made all nine calls, the ranking model among them once
C25_Witness ==
    /\ rec.pc = "done" /\ rec.response.http = 200
    /\ Len(rec.calls) = 9
    /\ Len(rec.filtered_candidates) = 2
    /\ rec.total_candidates > 2
    /\ Len(rec.predictions) = 2

\* a finished request with sourced candidates none of which survived: the
\* ranking model was never called
C25_WitnessNoSurvivor ==
    /\ rec.pc = "done" /\ rec.response.http = 200
    /\ rec.total_candidates > 0
    /\ rec.filtered_candidates = <<>>
    /\ \A k \in DOMAIN rec.calls : rec.calls[k] # "rank_candidates"

\* ------------------------------------------- claims: in-network preference
\* C26: of two candidates that enter the out-of-network stage with the same
\* score, one in-network and one out-of-network, the in-network one leaves
\* the stage with a score that is not below the other's, whatever the sign
\* of the score.
C26_InNetworkNotBelow ==
    \A k \in DOMAIN scoring.stages :
        scoring.stages[k].name = "OON" =>
            LET in == scoring.stages[k].input
                out == scoring.stages[k].result
            IN  \A i, j \in DOMAIN in :
                    (/\ in[i][1].is_in_network
                     /\ ~in[j][1].is_in_network
                     /\ in[i][2] = in[j][2]) =>
                        ~RLess(out[i][2], out[j][2])

\* two candidates entered the stage with the same negative score; the
\* out-of-network one left it with the higher score and stands before the
\* in-network one in the final ordering
C26_OutOfNetworkRaised ==
    /\ Len(scoring.stages) = 3
    /\ LET in == scoring.stages[3].input
           out == scoring.stages[3].result
           final == scoring.stages[3].output
       IN  \E i, j \in DOMAIN in :
              /\ in[i][1].is_in_network
              /\ ~in[j][1].is_in_network
              /\ in[i][2] = in[j][2]
              /\ RLess(in[i][2], Zero)
              /\ out[i][2] = in[i][2]
              /\ out[j][2] = RMul(in[j][2], WEIGHT_FACTOR)
              /\ RLess(out[i][2], out[j][2])
              /\ \E a, b \in DOMAIN final :
                    a < b /\ final[a] = out[j] /\ final[b] = out[i]

\* ------------------------------------------- claims: a post of both sources
\* C27: DropDuplicatesFilter, applied to the merged candidates of a request,
\* returns pairwise-distinct ids, each entry being the first candidate of
\* the merged list with its id; the merged list is the in-network
\* candidates followed by the out-of-network ones, so a filtered candidate
\* whose post was returned by both sources is the in-network copy, and the
\* score it ends with is the score it left the diversity stage with.
C27_BothSourcesKeepsInNetworkCopy ==
    rec.pc \in {"rank", "load_scoring_weights", "score", "done"} =>
        LET merged == rec.in_network \o rec.oon_candidates
            unique == DropDuplicatesFilter(merged).candidates
            First(id) == CHOOSE k \in DOMAIN merged :
                            /\ merged[k].id = id
                            /\ \A m \in 1 .. (k - 1) : merged[m].id # id
            filtered == rec.filtered_candidates
            both == {merged[a].id : a \in DOMAIN rec.in_network}
                        \cap {rec.oon_candidates[b].id : b \in DOMAIN rec.oon_candidates}
            diversity == AuthorDiversityApply(
                             ScoreCandidates(ScorerWeights(rec.db_weights), filtered,
                                             rec.predictions).output).output
        IN  /\ \A i, j \in DOMAIN unique : i # j => unique[i].id # unique[j].id
            /\ {unique[i].id : i \in DOMAIN unique} = {merged[k].id : k \in DOMAIN merged}
            /\ \A i \in DOMAIN unique : unique[i] = merged[First(unique[i].id)]
            /\ \A i \in DOMAIN filtered :
                  /\ \E k \in DOMAIN unique : unique[k] = filtered[i]
                  /\ filtered[i].id \in both => filtered[i].is_in_network
            /\ (rec.pc = "done" /\ rec.response.http = 200) =>
                  \A i \in DOMAIN rec.scored_candidates :
                      rec.scored_candidates[i][1].id \in both =>
                          \E m \in DOMAIN diversity :
                              diversity[m] = rec.scored_candidates[i]

\* a finished request in which one post came from both sources and ends with
\* its non-zero diversity-stage score, while a post of the out-of-network
\* source alone ends with a scaled score
C27_Witness ==
    /\ rec.pc = "done" /\ rec.response.http = 200
    /\ LET diversity == AuthorDiversityApply(
                            ScoreCandidates(ScorerWeights(rec.db_weights),
                                            rec.filtered_candidates,
                                            rec.predictions).output).output
           final == rec.scored_candidates
       IN  \E i, j \in DOMAIN final :
              /\ \E a \in DOMAIN rec.in_network : rec.in_network[a].id = final[i][1].id
              /\ \E b \in DOMAIN rec.oon_candidates :
                    rec.oon_candidates[b].id = final[i][1].id
              /\ final[i][1].is_in_network
              /\ final[i][2] # Zero
              /\ \E m \in DOMAIN diversity : diversity[m] = final[i]
              /\ ~final[j][1].is_in_network
              /\ \A m \in DOMAIN diversity : diversity[m] # final[j]

\* ------------------------------------------- claims: the duplicate marker
\* C28: a request is answered "already_logged" only when an event with its
\* (user, post, event type) is stored, and a request whose insert failed for
\* any reason other than that duplicate is answered with an error, never
\* with success.
C28_AlreadyLoggedOnlyOnDuplicate ==
    \A r \in Slots :
        /\ (pc[r] = "done" /\ resp[r].message = "already_logged") =>
              \E e \in events : SameTriple(e, EventOf(req[r]))
        /\ (pc[r] = "done" /\ hist[r].insert = "error") =>
              /\ resp[r].http = 500
              /\ resp[r].status # "success"

\* the insert failed with an error that is no duplicate-key violation, no
\* event of the request's triple is stored, and the answer is 200 "success"
\* "already_logged"
C28_FailureReportedAsLogged ==
    \E r \in Slots :
        /\ pc[r] = "done"
        /\ hist[r].insert = "error"
        /\ \A e \in events : ~SameTriple(e, EventOf(req[r]))
        /\ resp[r] = AlreadyLogged

\* ------------------------------------------- backfill_missing_embeddings
\* Table posts (id, content), the rows of post_embeddings that exist before
\* the first call, and the batch_size every call is made with. The rows that
\* exist were last written by online learning (is_pretrained false).
BackfillInit ==
    /\ \E n \in 0 .. MaxPosts, batch_size \in 1 .. MaxBatch :
          \E content \in [1 .. n -> {"", "t"}], existing \in SUBSET (1 .. n) :
              backfill = [posts |-> [i \in 1 .. n |-> [id |-> i, content |-> content[i]]],
                          post_embeddings |-> [i \in existing |-> [is_pretrained |-> FALSE]],
                          batch_size |-> batch_size,
                          returned |-> <<>>]
    /\ EngageIdle /\ UpdateIdle /\ FilterIdle
    /\ chain = <<>> /\ scoring = <<>> /\ store = <<>> /\ rec = <<>>

\* one call, every store and model call succeeding: the ids of all embedding
\* rows, then `select id, content ... limit(batch_size)` on posts (no order
\* and no offset is asked for: every call gets the first batch_size rows of
\* the table as the store keeps it), then compute_and_store_post_embedding
\* for each returned post that has content and no row, and the number of
\* them returned
BackfillMissingEmbeddings ==
    /\ backfill # <<>>
    /\ LET existing_ids == DOMAIN backfill.post_embeddings
           n == Len(backfill.posts)
           k == IF backfill.batch_size < n THEN backfill.batch_size ELSE n
           data == SubSeq(backfill.posts, 1, k)
           stored == {data[i].id : i \in {j \in DOMAIN data :
                          /\ data[j].id \notin existing_ids
                          /\ data[j].content # ""}}
       IN  backfill' =
                      [backfill EXCEPT
                          !.post_embeddings =
                              [i \in existing_ids \cup stored |->
                                  IF i \in stored THEN [is_pretrained |-> TRUE]
                                  ELSE backfill.post_embeddings[i]],
                          !.returned = <<Cardinality(stored)>>]
    /\ UNCHANGED <<engageVars, updateVars, filterVars, chain, scoring, store, rec>>

SpecBackfill == BackfillInit /\ [][BackfillMissingEmbeddings]_vars

\* POST /backfill-embeddings keeps being called
SpecBackfillLive == SpecBackfill /\ WF_vars(BackfillMissingEmbeddings)

\* ------------------------------------------- claims: backfill
\* C29: when backfill keeps being called, eventually a call returns 0 with
\* no post that has content lacking an embedding row, and no call changes
\* an embedding row that exists.
C29_BackfillCompletes ==
    /\ <>(/\ backfill.returned = <<0>>
          /\ \A i \in DOMAIN backfill.posts :
                backfill.posts[i].content # "" =>
                    backfill.posts[i].id \in DOMAIN backfill.post_embeddings)
    /\ [][\A i \in DOMAIN backfill.post_embeddings :
             /\ i \in DOMAIN backfill'.post_embeddings
             /\ backfill'.post_embeddings[i] = backfill.post_embeddings[i]]_vars

\* a table of more posts than batch_size: a call returned 0, the posts of
\* the first batch_size rows have their rows, and a post with content
\* beyond them has none
C29_ReturnedZeroWithMissing ==
    /\ backfill.returned = <<0>>
    /\ Len(backfill.posts) > backfill.batch_size
    /\ \A i \in 1 .. backfill.batch_size :
          backfill.posts[i].id \in DOMAIN backfill.post_embeddings
    /\ \E i \in DOMAIN backfill.posts :
          /\ backfill.posts[i].content # ""
          /\ backfill.posts[i].id \notin DOMAIN backfill.post_embeddings

\* ------------------------------------------- claims: no similarity threshold
\* C30 as stated: with a zero user embedding the out-of-network branch
\* returns the non-reply posts among the first min(limit, rows) embedding
\* rows, and a request of a user with no follows and no stored embedding, no
\* call of which fails, is answered with at least one post whenever one of
\* those posts is recent and by another author.
C30_ZeroEmbeddingAlwaysServed ==
    (/\ rec.pc = "done"
     /\ rec.failed = {}
     /\ store.follows = {}
     /\ store.user_embeddings = <<>>
     /\ \E i \in DOMAIN OutOfNetworkCandidates(Zero, PHOENIX_MAX_RESULTS) :
           LET post == OutOfNetworkCandidates(Zero, PHOENIX_MAX_RESULTS)[i]
           IN  /\ post.author_id # rec.user_id
               /\ post.created_at > 0 - MAX_POST_AGE_DAYS * DaySeconds) =>
        /\ rec.response.http = 200
        /\ rec.response.posts # <<>>

\* C30, amended: with a zero user embedding every similarity is 0 and the
\* out-of-network branch, for every limit, returns the non-reply posts among
\* the first min(limit, rows) embedding rows, in the order of the posts
\* table; a request with no follows and a zero embedding whose
\* out-of-network fetch succeeded and which is answered 200 carries a post
\* exactly when one of those posts has text, is younger than the age
\* window, is not the user's own, and is by an author in neither the block
\* nor the mute list the request loaded.
C30_ZeroEmbeddingServedUnlessFiltered ==
    LET rows == store.post_embeddings
        Expected(limit) ==
            LET n == IF limit < Len(rows) THEN limit ELSE Len(rows)
                ids == {rows[i].post_id : i \in 1 .. n}
                data == SelectSeq(store.posts,
                                  LAMBDA post : post.id \in ids /\ ~post.is_reply)
            IN  [i \in DOMAIN data |-> PostCandidate(data[i], FALSE)]
        sourced == Expected(PHOENIX_MAX_RESULTS)
        kept == {i \in DOMAIN sourced :
                    /\ sourced[i].text # ""
                    /\ sourced[i].created_at > 0 - MAX_POST_AGE_DAYS * DaySeconds
                    /\ sourced[i].author_id # rec.user_id
                    /\ sourced[i].author_id \notin rec.blocked \cup rec.muted}
    IN  /\ \A limit \in 0 .. (Len(rows) + 1) :
              OutOfNetworkCandidates(Zero, limit) = Expected(limit)
        /\ (/\ rec.pc = "done"
            /\ rec.response.http = 200
            /\ rec.following = {}
            /\ rec.user_embedding = Zero
            /\ "post_embeddings, posts" \notin rec.failed) =>
              /\ rec.oon_candidates = sourced
              /\ rec.response.posts # <<>> <=> kept # {}

\* a user without follows and without a stored embedding is answered with
\* out-of-network posts only, no call having failed
C30_Witness ==
    /\ rec.pc = "done" /\ rec.response.http = 200
    /\ rec.failed = {}
    /\ store.follows = {} /\ store.user_embeddings = <<>>
    /\ rec.user_embedding = Zero
    /\ Len(rec.oon_candidates) > 1
    /\ rec.response.posts # <<>>
    /\ \A i \in DOMAIN rec.response.posts : ~rec.response.posts[i].is_in_network

====
